---- MODULE Spec2Model ----
(***************************************************************************)
(* A model of donut's DeviceManager (src/src/app/DeviceManager.cpp, its    *)
(* declarations in src/unnamed/part_000) driving the DX11 backend          *)
(* (src/src/app/dx11/DeviceManager_DX11.cpp).                              *)
(*                                                                         *)
(* The program is single threaded: every handler runs to completion, so    *)
(* each handler is one action.  The calls a handler makes on the render    *)
(* passes, the lifecycle hooks and the backend are recorded, in order, in  *)
(* `trace`, which always holds the calls of the most recent handler.       *)
(* Each code function is an operator from a program state (a record of     *)
(* the objects' fields) to the program state after it.                     *)
(***************************************************************************)
EXTENDS Integers, Sequences, FiniteSets, TLC

VARIABLES
    dm,           \* the DeviceManager object's fields (part_000:602-633)
    dx,           \* the DeviceManager_DX11 backend's fields
    rp,           \* what each IRenderPass object last heard from the manager
    trace,        \* the calls made by the most recent handler, in order
    halted,       \* the process has stopped (log::fatal, or a crash)
    loop,         \* RunMessageLoop's position and what it has called
    op,           \* the most recent handler and the pass list it started from
    renderPasses  \* the IRenderPass objects the application has constructed

vars == <<dm, dx, rp, trace, halted, loop, op, renderPasses>>

---------------------------------------------------------------------------
(* Bounds of the model. *)

\* Window widths read from the surface are 0..MaxWidth (0: minimized).
MaxWidth == 2
\* Window heights read from the surface are 0..MaxHeight (0: minimized).
MaxHeight == 1
\* swapChainBufferCount passed by the application is 1..MaxBufferCount.
MaxBufferCount == 2
\* Ticks are modelled while m_FrameIndex < MaxFrameIndex.
MaxFrameIndex == 1

(* Program constants. *)
DefaultBackBufferWidth == 1280
DefaultBackBufferHeight == 720
DefaultSampleCount == 1

AllPasses == {"P1", "P2", "P3"}
NoPass == "-"

Size(w, h) == [w |-> w, h |-> h]

RECURSIVE GCD(_, _)
GCD(a, b) == IF b = 0 THEN a ELSE GCD(b, a % b)

\* The quotient n / d of two doubles that hold whole numbers (n >= 0, d > 0):
\* the fraction in lowest terms.  A whole number x is Quotient(x, 1).
Quotient(n, d) ==
    LET g == GCD(n, d)
    IN IF n = 0 THEN [num |-> 0, den |-> 1]
       ELSE [num |-> n \div g, den |-> d \div g]
NoSize == Size(-1, -1)
\* A framebuffer read outside m_SwapChainFramebuffers: not one built by the manager.
GarbageFramebuffer == Size(-2, -2)
\* A null texture handle (m_RhiBackBuffer after ReleaseRenderTarget).
NullTexture == Size(0, 0)

WindowSizes == {Size(0, 0)} \cup {Size(w, h) : w \in 1..MaxWidth, h \in 1..MaxHeight}

---------------------------------------------------------------------------
(* Sequence helpers. *)

RECURSIVE SeqRemove(_, _)
\* std::list::remove: every element equal to x is erased, the rest keep their order.
SeqRemove(seq, x) ==
    IF seq = <<>> THEN <<>>
    ELSE IF Head(seq) = x THEN SeqRemove(Tail(seq), x)
         ELSE <<Head(seq)>> \o SeqRemove(Tail(seq), x)

Range(seq) == {seq[i] : i \in 1..Len(seq)}

Count(seq, x) == Cardinality({i \in 1..Len(seq) : seq[i] = x})

\* The indexes of the events of `tr` named ev.
Idx(tr, ev) == {i \in 1..Len(tr) : tr[i].ev = ev}

\* The subsequence of the events of `tr` whose name is in `evs`.
Filter(tr, evs) == SelectSeq(tr, LAMBDA e : e.ev \in evs)

\* The passes of the events of `tr` named ev, in order.
PassesOf(tr, ev) ==
    LET f == Filter(tr, {ev}) IN [i \in 1..Len(f) |-> f[i].pass]

---------------------------------------------------------------------------
(* The program state as one record, and the calls recorded in it. *)

State == [dm |-> dm, dx |-> dx, rp |-> rp, trace |-> <<>>,
          halted |-> halted, loop |-> loop, ret |-> TRUE]

\* One recorded call: its name, the pass it is made on (NoPass for a hook or a
\* backend call), its arguments x, y, z, and what the manager holds when it is
\* made: the number of framebuffers (n), the stored backbuffer size (bw, bh)
\* and the size last announced to the pass (ann).
Event(s, ev, pass, x, y, z) ==
    [ev |-> ev, pass |-> pass, x |-> x, y |-> y, z |-> z,
     n |-> Len(s.dm.m_SwapChainFramebuffers),
     bw |-> s.dm.m_DeviceParams.backBufferWidth,
     bh |-> s.dm.m_DeviceParams.backBufferHeight,
     ann |-> IF pass \in DOMAIN s.rp.announced THEN s.rp.announced[pass] ELSE NoSize]

\* A call is made only while the process runs.
Emit(s, ev, pass, x, y, z) ==
    IF s.halted THEN s
    ELSE [s EXCEPT !.trace = Append(@, Event(s, ev, pass, x, y, z))]

\* The process stops here (abort, or a crash).
Halt(s) == [s EXCEPT !.halted = TRUE]

\* return v; reached only while the process runs.
Return(t, v) == IF t.halted THEN t ELSE [t EXCEPT !.ret = v]

\* A dereference of a pointer that is null when `isNull`: undefined behaviour.
\* The build either crashes there or runs on (goesOn).
Deref(s, isNull, goesOn) ==
    IF isNull /\ ~goesOn THEN Halt(s) ELSE s

---------------------------------------------------------------------------
(* DeviceManager: the render-pass list. *)

\* IRenderPass::BackBufferResizing called on one pass.
PassBackBufferResizing(s, p) == Emit(s, "BackBufferResizing", p, 0, 0, 0)

\* IRenderPass::BackBufferResized(width, height, sampleCount) called on one pass.
PassBackBufferResized(s, p) ==
    LET w == s.dm.m_DeviceParams.backBufferWidth
        h == s.dm.m_DeviceParams.backBufferHeight
        c == s.dm.m_DeviceParams.swapChainSampleCount
        s1 == Emit(s, "BackBufferResized", p, w, h, c)
    IN IF s.halted THEN s
       ELSE [s1 EXCEPT !.rp.announced[p] = Size(w, h)]

AddRenderPassToFront_PushBack(s, p) ==
    LET s1 == [s EXCEPT !.dm.m_vRenderPasses = Append(SeqRemove(@, p), p)]
    IN PassBackBufferResized(PassBackBufferResizing(s1, p), p)

\* AddRenderPassToFront without its BackBufferResizing call.
AddRenderPassToFront_ResizedOnly(s, p) ==
    LET s1 == [s EXCEPT !.dm.m_vRenderPasses = <<p>> \o SeqRemove(@, p)]
    IN PassBackBufferResized(s1, p)

AddRenderPassToFront(s, p) ==
    LET s1 == [s EXCEPT !.dm.m_vRenderPasses = <<p>> \o SeqRemove(@, p)]
    IN PassBackBufferResized(PassBackBufferResizing(s1, p), p)

AddRenderPassToBack_Unnotified(s, p) ==
    [s EXCEPT !.dm.m_vRenderPasses = Append(SeqRemove(@, p), p)]

AddRenderPassToBack(s, p) ==
    LET s1 == [s EXCEPT !.dm.m_vRenderPasses = Append(SeqRemove(@, p), p)]
    IN PassBackBufferResized(PassBackBufferResizing(s1, p), p)

\* rp.announced[p] is the size announced to p since it was last registered.
RemoveRenderPass(s, p) ==
    [s EXCEPT !.dm.m_vRenderPasses = SeqRemove(@, p),
              !.rp.announced[p] = NoSize]

---------------------------------------------------------------------------
(* DeviceManager: input dispatch.  resp[p] is what pass p's handler returns. *)

RECURSIVE DispatchReverse(_, _, _, _, _, _)
\* for (it = crbegin(); it != crend(); it++) { ret = (*it)->handler(..); if (ret) break; }
\* i is the position of *it in the list (Len: the back).
DispatchReverse(s, i, ev, x, y, resp) ==
    IF i = 0 THEN s
    ELSE LET p == s.dm.m_vRenderPasses[i]
             s1 == Emit(s, ev, p, x, y, IF resp[p] THEN 1 ELSE 0)
         IN IF resp[p] THEN s1 ELSE DispatchReverse(s1, i - 1, ev, x, y, resp)

RECURSIVE DispatchForward(_, _, _, _, _, _)
DispatchForward(s, i, ev, x, y, resp) ==
    IF i > Len(s.dm.m_vRenderPasses) THEN s
    ELSE LET p == s.dm.m_vRenderPasses[i]
             s1 == Emit(s, ev, p, x, y, IF resp[p] THEN 1 ELSE 0)
         IN IF resp[p] THEN s1 ELSE DispatchForward(s1, i + 1, ev, x, y, resp)

RECURSIVE DispatchNoBreak(_, _, _, _, _, _)
DispatchNoBreak(s, i, ev, x, y, resp) ==
    IF i = 0 THEN s
    ELSE LET p == s.dm.m_vRenderPasses[i]
             s1 == Emit(s, ev, p, x, y, IF resp[p] THEN 1 ELSE 0)
         IN DispatchNoBreak(s1, i - 1, ev, x, y, resp)

KeyboardUpdate_FrontFirst(s, resp) ==
    DispatchForward(s, 1, "KeyboardUpdate", 0, 0, resp)

KeyboardUpdate(s, resp) ==
    DispatchReverse(s, Len(s.dm.m_vRenderPasses), "KeyboardUpdate", 0, 0, resp)

KeyboardCharInput(s, resp) ==
    DispatchReverse(s, Len(s.dm.m_vRenderPasses), "KeyboardCharInput", 0, 0, resp)

MousePosUpdate_Truncates(s, xpos, ypos, resp) ==
    LET scaled == ~s.dm.m_DeviceParams.supportExplicitDisplayScaling
        x == IF scaled THEN xpos \div s.dm.m_DPIScaleFactorX ELSE xpos
        y == IF scaled THEN ypos \div s.dm.m_DPIScaleFactorY ELSE ypos
    IN DispatchReverse(s, Len(s.dm.m_vRenderPasses), "MousePosUpdate",
                       Quotient(x, 1), Quotient(y, 1), resp)

\* xpos, ypos (doubles) are divided by the DPI scale unless the application
\* scales itself.
MousePosUpdate(s, xpos, ypos, resp) ==
    LET scaled == ~s.dm.m_DeviceParams.supportExplicitDisplayScaling
        x == IF scaled THEN Quotient(xpos, s.dm.m_DPIScaleFactorX) ELSE Quotient(xpos, 1)
        y == IF scaled THEN Quotient(ypos, s.dm.m_DPIScaleFactorY) ELSE Quotient(ypos, 1)
    IN DispatchReverse(s, Len(s.dm.m_vRenderPasses), "MousePosUpdate", x, y, resp)

\* AndroidNativeCallback_OnInputEvent for a motion event with
\* AMOTION_EVENT_ACTION_MOVE: the position read from the event is recorded and
\* handed to MousePosUpdate.
OnMotionEventMove(s, x, y, resp) ==
    IF s.halted THEN s
    ELSE MousePosUpdate(Emit(s, "AMOTION_EVENT_ACTION_MOVE", NoPass, x, y, 0),
                        x, y, resp)

MouseButtonUpdate_NoBreak(s, resp) ==
    DispatchNoBreak(s, Len(s.dm.m_vRenderPasses), "MouseButtonUpdate", 0, 0, resp)

MouseButtonUpdate(s, resp) ==
    DispatchReverse(s, Len(s.dm.m_vRenderPasses), "MouseButtonUpdate", 0, 0, resp)

MouseScrollUpdate(s, resp) ==
    DispatchReverse(s, Len(s.dm.m_vRenderPasses), "MouseScrollUpdate", 0, 0, resp)

InputEvents == {"KeyboardUpdate", "KeyboardCharInput", "MousePosUpdate",
                "MouseButtonUpdate", "MouseScrollUpdate"}

---------------------------------------------------------------------------
(* The DX11 backend. Each `ok`/`out` argument is what the graphics API answers. *)

\* donut::log::fatal: reports the message and stops the process.
LogFatal(s) == Halt(Emit(s, "log::fatal", NoPass, 0, 0, 0))

\* The number of swapchain images the backend reports.
GetBackBufferCount(s) == s.dm.m_DeviceParams.swapChainBufferCount

\* The backend's texture for backbuffer `index`.
GetBackBuffer(s, index) == s.dx.m_RhiBackBuffer

\* Each creation step is recorded with what it returns (z = 1: true), and
\* CreateInstanceInternal with whether m_DxgiFactory exists already (x = 1).
CreateInstanceInternal(s, ok) ==
    LET s1 == Emit(s, "CreateInstanceInternal", NoPass,
                   IF s.dx.m_DxgiFactory THEN 1 ELSE 0, 0,
                   IF s.dx.m_DxgiFactory \/ ok THEN 1 ELSE 0)
    IN IF s.dx.m_DxgiFactory THEN [s1 EXCEPT !.ret = TRUE]
       ELSE IF ok THEN [s1 EXCEPT !.dx.m_DxgiFactory = TRUE, !.ret = TRUE]
       ELSE [s1 EXCEPT !.ret = FALSE]

CreateDevice(s, ok) ==
    LET s1 == Emit(s, "CreateDevice", NoPass, 0, 0, IF ok THEN 1 ELSE 0)
    IN IF ok THEN [s1 EXCEPT !.dx.m_NvrhiDevice = TRUE, !.ret = TRUE]
       ELSE [s1 EXCEPT !.ret = FALSE]

ReleaseRenderTarget(s) == [s EXCEPT !.dx.m_RhiBackBuffer = NullTexture]

\* The texture handle is created with the stored backbuffer size.
CreateRenderTarget(s, ok) ==
    LET s1 == ReleaseRenderTarget(s)
    IN IF ~ok THEN [s1 EXCEPT !.ret = FALSE]
       ELSE [s1 EXCEPT !.dx.m_RhiBackBuffer =
                           Size(s.dm.m_DeviceParams.backBufferWidth,
                                s.dm.m_DeviceParams.backBufferHeight),
                       !.ret = TRUE]

SwapChainOutcomes == {"ok", "swapchain_failed", "rendertarget_failed"}

CreateSwapChain(s, out) ==
    LET s1 == Emit(s, "CreateSwapChain", NoPass, 0, 0, IF out = "ok" THEN 1 ELSE 0)
    IN IF out = "swapchain_failed" THEN [s1 EXCEPT !.ret = FALSE]
       ELSE CreateRenderTarget([s1 EXCEPT !.dx.m_SwapChain = TRUE],
                               out # "rendertarget_failed")

DestroyDeviceAndSwapChain(s) ==
    LET s1 == Emit(s, "DestroyDeviceAndSwapChain", NoPass, 0, 0, 0)
    IN [s1 EXCEPT !.dx.m_RhiBackBuffer = NullTexture,
                  !.dx.m_NvrhiDevice = FALSE,
                  !.dx.m_SwapChain = FALSE]

ResizeOutcomes == {"ok", "resizebuffers_failed", "rendertarget_failed"}

FatalUnlessCreated_GoesOn(t) == t

\* if (!CreateRenderTarget()) log::fatal(..): t is the state after CreateRenderTarget.
FatalUnlessCreated(t) == IF t.ret THEN t ELSE LogFatal(t)

\* ResizeSwapChain after its ReleaseRenderTarget (state s1).
ResizeBuffers(s1, out) ==
    IF ~s1.dx.m_SwapChain THEN s1
    ELSE IF out = "resizebuffers_failed" THEN LogFatal(s1)
    ELSE FatalUnlessCreated(CreateRenderTarget(s1, out # "rendertarget_failed"))

ResizeSwapChain(s, out) ==
    IF s.halted THEN s
    ELSE ResizeBuffers(
             ReleaseRenderTarget(
                 Emit(s, "ResizeSwapChain", NoPass,
                      s.dm.m_DeviceParams.backBufferWidth,
                      s.dm.m_DeviceParams.backBufferHeight, 0)),
             out)

---------------------------------------------------------------------------
(* DeviceManager: the resize notifications and the framebuffer set. *)

RECURSIVE ForEachPass(_, _, _, _, _)
\* for (auto it : m_vRenderPasses) it->ev(x, y): from the front of the list.
ForEachPass(s, i, ev, x, y) ==
    IF i > Len(s.dm.m_vRenderPasses) THEN s
    ELSE ForEachPass(Emit(s, ev, s.dm.m_vRenderPasses[i], x, y, 0), i + 1, ev, x, y)

RECURSIVE ResizedEachPass(_, _)
ResizedEachPass(s, i) ==
    IF i > Len(s.dm.m_vRenderPasses) THEN s
    ELSE ResizedEachPass(PassBackBufferResized(s, s.dm.m_vRenderPasses[i]), i + 1)

RECURSIVE CreateFramebuffers(_, _, _)
\* m_SwapChainFramebuffers[index] = GetDevice()->createFramebuffer(GetBackBuffer(index))
CreateFramebuffers(s, index, count) ==
    IF index >= count THEN s
    ELSE LET s1 == [s EXCEPT !.dm.m_SwapChainFramebuffers[index + 1] =
                                 GetBackBuffer(s, index)]
         IN CreateFramebuffers(Emit(s1, "createFramebuffer", NoPass, index, 0, 0),
                               index + 1, count)

BackBufferResizing_KeepsFramebuffers(s) ==
    ForEachPass(s, 1, "BackBufferResizing", 0, 0)

BackBufferResizing(s) ==
    IF s.halted THEN s
    ELSE ForEachPass([s EXCEPT !.dm.m_SwapChainFramebuffers = <<>>], 1,
                     "BackBufferResizing", 0, 0)

\* The framebuffers are built by m_NvrhiDevice, a null pointer when no device exists.
\* m_SwapChainFramebuffers.resize(count), then the loop of createFramebuffer calls.
ResizeAndCreateFramebuffers(s1, count) ==
    IF s1.halted THEN s1
    ELSE CreateFramebuffers(
             [s1 EXCEPT !.dm.m_SwapChainFramebuffers = [i \in 1..count |-> NullTexture]],
             0, count)

RebuildFramebuffers(s, goesOn) ==
    ResizeAndCreateFramebuffers(
        Deref(s, ~s.dx.m_NvrhiDevice /\ GetBackBufferCount(s) > 0, goesOn),
        GetBackBufferCount(s))

BackBufferResized_RebuildsFirst(s, goesOn) ==
    IF s.halted THEN s
    ELSE ResizedEachPass(RebuildFramebuffers(s, goesOn), 1)

BackBufferResized_OneFramebuffer(s, goesOn) ==
    IF s.halted THEN s
    ELSE ResizeAndCreateFramebuffers(ResizedEachPass(s, 1), 1)

BackBufferResized(s, goesOn) ==
    IF s.halted THEN s
    ELSE RebuildFramebuffers(ResizedEachPass(s, 1), goesOn)

\* The graphics API of the backend.
GetGraphicsAPI(s) == "D3D11"

\* (w, h) is what ANativeWindow_getWidth/Height answer.
\* m_DeviceParams.backBufferWidth = w; m_DeviceParams.backBufferHeight = h;
SetBackBufferSize(s, w, h) ==
    [s EXCEPT !.dm.m_DeviceParams.backBufferWidth = w,
              !.dm.m_DeviceParams.backBufferHeight = h]

\* m_DeviceParams.vsyncEnabled = m_RequestedVSync;
SetVsyncEnabled(s) ==
    IF s.halted THEN s
    ELSE [s EXCEPT !.dm.m_DeviceParams.vsyncEnabled = s.dm.m_RequestedVSync]

\* The resize event of UpdateWindowSize, taken when the size has changed.
ResizeEvent(s1, w, h, out, goesOn) ==
    BackBufferResized(
        ResizeSwapChain(SetVsyncEnabled(SetBackBufferSize(BackBufferResizing(s1), w, h)),
                        out),
        goesOn)

\* UpdateWindowSize for a surface that has a size (state s1: visible, in focus).
UpdateVisibleWindowSize(s1, w, h, out, goesOn) ==
    SetVsyncEnabled(
        IF \/ s1.dm.m_DeviceParams.backBufferWidth # w
           \/ s1.dm.m_DeviceParams.backBufferHeight # h
           \/ (s1.dm.m_DeviceParams.vsyncEnabled # s1.dm.m_RequestedVSync
               /\ GetGraphicsAPI(s1) = "VULKAN")
        THEN ResizeEvent(s1, w, h, out, goesOn)
        ELSE s1)

\* UpdateWindowSize with a window; s1 is the state after the surface's width and
\* height were asked for.
UpdateSurfaceSize(s1, w, h, out, goesOn) ==
    IF w = 0 \/ h = 0 THEN [s1 EXCEPT !.dm.m_windowVisible = FALSE]
    ELSE UpdateVisibleWindowSize(
             [s1 EXCEPT !.dm.m_windowVisible = TRUE, !.dm.m_windowIsInFocus = TRUE],
             w, h, out, goesOn)

UpdateWindowSize_VsyncResizes(s, w, h, out, goesOn) ==
    LET s1 == Emit(Emit(s, "ANativeWindow_getWidth", NoPass, 0, 0, w),
                   "ANativeWindow_getHeight", NoPass, 0, 0, h)
        s2 == [s1 EXCEPT !.dm.m_windowVisible = TRUE, !.dm.m_windowIsInFocus = TRUE]
    IN IF s.halted THEN s
       ELSE IF ~s.dm.m_NativeWindow THEN [s EXCEPT !.dm.m_windowVisible = FALSE]
       ELSE IF w = 0 \/ h = 0 THEN [s1 EXCEPT !.dm.m_windowVisible = FALSE]
       ELSE SetVsyncEnabled(
                IF \/ s2.dm.m_DeviceParams.backBufferWidth # w
                   \/ s2.dm.m_DeviceParams.backBufferHeight # h
                   \/ s2.dm.m_DeviceParams.vsyncEnabled # s2.dm.m_RequestedVSync
                THEN ResizeEvent(s2, w, h, out, goesOn)
                ELSE s2)

\* The answers of ANativeWindow_getWidth and ANativeWindow_getHeight are
\* recorded as z.
UpdateWindowSize(s, w, h, out, goesOn) ==
    IF s.halted THEN s
    ELSE IF ~s.dm.m_NativeWindow THEN [s EXCEPT !.dm.m_windowVisible = FALSE]
    ELSE UpdateSurfaceSize(
             Emit(Emit(s, "ANativeWindow_getWidth", NoPass, 0, 0, w),
                  "ANativeWindow_getHeight", NoPass, 0, 0, h),
             w, h, out, goesOn)

---------------------------------------------------------------------------
(* DeviceManager: creation and shutdown. *)

\* m_InstanceCreated = CreateInstanceInternal(); return m_InstanceCreated;
SetInstanceCreated(s1) == [s1 EXCEPT !.dm.m_InstanceCreated = s1.ret]

\* The InstanceParameters part of a parameter record, as far as the model reads it.
InstanceParameters(params) ==
    [enableDebugRuntime |-> params.enableDebugRuntime,
     headlessDevice |-> params.headlessDevice]

\* static_cast<InstanceParameters&>(m_DeviceParams) = params;
StoreInstanceParams(s, params) ==
    [s EXCEPT !.dm.m_DeviceParams.enableDebugRuntime = params.enableDebugRuntime,
              !.dm.m_DeviceParams.headlessDevice = params.headlessDevice]

\* The call is recorded with the enableDebugRuntime it is given (x = 1: true).
CalledCreateInstance(s, params) ==
    Emit(s, "CreateInstance", NoPass, IF params.enableDebugRuntime THEN 1 ELSE 0, 0, 0)

CreateInstance_StoresAgain(s, params, ok) ==
    IF s.halted THEN s
    ELSE IF s.dm.m_InstanceCreated
    THEN Return(StoreInstanceParams(CalledCreateInstance(s, params), params), TRUE)
    ELSE SetInstanceCreated(
             CreateInstanceInternal(
                 StoreInstanceParams(CalledCreateInstance(s, params), params), ok))

CreateInstance(s, params, ok) ==
    IF s.halted THEN s
    ELSE IF s.dm.m_InstanceCreated THEN Return(CalledCreateInstance(s, params), TRUE)
    ELSE SetInstanceCreated(
             CreateInstanceInternal(
                 StoreInstanceParams(CalledCreateInstance(s, params), params), ok))

\* The application's DeviceCreationParameters, as far as the model reads them.
CreationParams(vsyncs, counts, debugs) ==
    [vsyncEnabled : vsyncs, swapChainBufferCount : counts, enableDebugRuntime : debugs]

\* What the platform and the graphics API answer during creation: whether
\* android_app->window exists, the surface's size, the display density, and the
\* outcome of each backend step.
CreationAnswersOn(sizes, densities) ==
    [window : BOOLEAN, size : sizes, density : densities,
     instance : BOOLEAN, device : BOOLEAN, swapchain : SwapChainOutcomes,
     resize : ResizeOutcomes]

CreationAnswers(densities) == CreationAnswersOn(WindowSizes, densities)

\* m_DeviceParams = params; m_DeviceParams.headlessDevice = headless;  the
\* fields the application leaves alone have their default values.
StoreDeviceParams(s, params, headless) ==
    [s EXCEPT !.dm.m_DeviceParams.vsyncEnabled = params.vsyncEnabled,
              !.dm.m_DeviceParams.swapChainBufferCount = params.swapChainBufferCount,
              !.dm.m_DeviceParams.enableDebugRuntime = params.enableDebugRuntime,
              !.dm.m_DeviceParams.headlessDevice = headless,
              !.dm.m_DeviceParams.backBufferWidth = DefaultBackBufferWidth,
              !.dm.m_DeviceParams.backBufferHeight = DefaultBackBufferHeight,
              !.dm.m_DeviceParams.swapChainSampleCount = DefaultSampleCount,
              !.dm.m_DeviceParams.supportExplicitDisplayScaling =
                  IF "supportExplicitDisplayScaling" \in DOMAIN params
                  THEN params.supportExplicitDisplayScaling ELSE FALSE]

\* CreateInstance(m_DeviceParams): the stored parameters are passed back in.
CreateInstanceFromStored(s1, ok) ==
    CreateInstance(s1, InstanceParameters(s1.dm.m_DeviceParams), ok)

\* if (!CreateInstance(m_DeviceParams)) return false; return CreateDevice();
CreateHeadless(s2, ok) == IF ~s2.ret THEN s2 ELSE CreateDevice(s2, ok)

CreateHeadlessDevice(s, params, env) ==
    IF s.halted THEN s
    ELSE CreateHeadless(
             CreateInstanceFromStored(StoreDeviceParams(s, params, TRUE), env.instance),
             env.device)

\* The surface's size, the window handle and the display density are stored.
StoreNativeWindow(s2, env) ==
    [s2 EXCEPT !.dm.m_DeviceParams.backBufferWidth = env.size.w,
               !.dm.m_DeviceParams.backBufferHeight = env.size.h,
               !.dm.m_NativeWindow = TRUE,
               !.dm.m_DPIScaleFactorX = env.density,
               !.dm.m_DPIScaleFactorY = env.density]

ForceResizeEvent_KeepsStoredSize(s5, env) ==
    IF ~s5.ret THEN s5
    ELSE Return(UpdateWindowSize([s5 EXCEPT !.dm.m_windowVisible = TRUE],
                                 env.size.w, env.size.h, env.resize, FALSE),
                TRUE)

\* m_windowVisible = true; the stored size is reset; UpdateWindowSize(); return true;
ForceResizeEvent(s5, env) ==
    IF ~s5.ret THEN s5
    ELSE Return(UpdateWindowSize(
                    SetBackBufferSize([s5 EXCEPT !.dm.m_windowVisible = TRUE], 0, 0),
                    env.size.w, env.size.h, env.resize, FALSE),
                TRUE)

CreateWindowSwapChain_GoesOn(s4, env) ==
    ForceResizeEvent(CreateSwapChain(s4, env.swapchain), env)

\* if (!CreateDevice()) return false; if (!CreateSwapChain()) return false; ...
CreateWindowSwapChain(s4, env) ==
    IF ~s4.ret THEN s4 ELSE ForceResizeEvent(CreateSwapChain(s4, env.swapchain), env)

\* CreateWindowDeviceAndSwapChain after its CreateInstance call (state s2).
CreateWindowDevice(s2, env) ==
    IF ~s2.ret THEN s2
    ELSE IF ~env.window THEN [s2 EXCEPT !.ret = FALSE]
    ELSE CreateWindowSwapChain(CreateDevice(StoreNativeWindow(s2, env), env.device), env)

CreateWindowDeviceAndSwapChain(s, params, env) ==
    IF s.halted THEN s
    ELSE CreateWindowDevice(
             CreateInstanceFromStored(
                 [StoreDeviceParams(s, params, FALSE) EXCEPT
                     !.dm.m_RequestedVSync = params.vsyncEnabled],
                 env.instance),
             env)

Shutdown_KeepsInstance(s) ==
    IF s.halted THEN s
    ELSE [DestroyDeviceAndSwapChain([s EXCEPT !.dm.m_SwapChainFramebuffers = <<>>])
             EXCEPT !.dm.m_NativeWindow = FALSE]

Shutdown(s) ==
    IF s.halted THEN s
    ELSE LET s1 == DestroyDeviceAndSwapChain(
                       [s EXCEPT !.dm.m_SwapChainFramebuffers = <<>>])
         IN [s1 EXCEPT !.dm.m_NativeWindow = FALSE, !.dm.m_InstanceCreated = FALSE]

---------------------------------------------------------------------------
(* DeviceManager: one tick. *)

\* What the passes, the platform and the graphics API answer during one tick:
\* the passes that return true from ShouldRenderUnfocused, whether the swapchain's
\* windowed state read by BeginFrame differs from the stored one and the size it
\* then has, the outcome of a swapchain resize, the current backbuffer index,
\* whether Present succeeds, and whether the build runs on after undefined
\* behaviour.
TickAnswers(passes, count) ==
    [unfocused : SUBSET passes, windowed : BOOLEAN,
     size : {sz \in WindowSizes : sz.w > 0 /\ sz.h > 0},
     resize : ResizeOutcomes, index : 0..(count - 1),
     present : BOOLEAN, goesOn : BOOLEAN]

\* A lifecycle hook of m_callbacks, called with a frame index.
Hook(s, name, frameIndex) == Emit(s, name, NoPass, frameIndex, 0, 0)

\* The 32-bit index 2^32 - 1 that 0 - 1 wraps to.
WrappedIndex == -1

\* uint32_t frameIndex--.
Decrement32(x) == IF x = 0 THEN WrappedIndex ELSE x - 1

RECURSIVE AskUnfocused(_, _, _)
\* for (it = crbegin(); ...) { if ((*it)->ShouldRenderUnfocused()) return true; } return false;
AskUnfocused(s, i, unfocused) ==
    IF i = 0 THEN [s EXCEPT !.ret = FALSE]
    ELSE LET p == s.dm.m_vRenderPasses[i]
             yes == p \in unfocused
             s1 == Emit(s, "ShouldRenderUnfocused", p, 0, 0, IF yes THEN 1 ELSE 0)
         IN IF yes THEN [s1 EXCEPT !.ret = TRUE]
            ELSE AskUnfocused(s1, i - 1, unfocused)

ShouldRenderUnfocused_Always(s, unfocused) ==
    [s EXCEPT !.ret = TRUE]

ShouldRenderUnfocused(s, unfocused) ==
    AskUnfocused(s, Len(s.dm.m_vRenderPasses), unfocused)

DisplayScaleChanged(s) ==
    ForEachPass(s, 1, "DisplayScaleChanged",
                s.dm.m_DPIScaleFactorX, s.dm.m_DPIScaleFactorY)

Animate_BackToFront(s) ==
    DispatchNoBreak(s, Len(s.dm.m_vRenderPasses), "Animate", 0, 0,
                    [p \in AllPasses |-> FALSE])

\* elapsedTime is not modelled: every pass is called with x = 0.
Animate(s) == ForEachPass(s, 1, "Animate", 0, 0)

\* BeginFrame after the swapchain's GetDesc (state s1): a changed windowed state
\* is a resize event.
BeginFrameResize_NoResize(s1, in) ==
    IF s1.halted THEN s1 ELSE [s1 EXCEPT !.ret = TRUE]

BeginFrameResize(s1, in) ==
    IF s1.halted THEN s1
    ELSE IF ~s1.dx.m_SwapChain \/ ~in.windowed THEN [s1 EXCEPT !.ret = TRUE]
    ELSE Return(BackBufferResized(
                    ResizeSwapChain(
                        SetBackBufferSize(BackBufferResizing(s1), in.size.w, in.size.h),
                        in.resize),
                    in.goesOn),
                TRUE)

\* The call is recorded with what m_SwapChain->GetDesc answers: z = 1 when the
\* windowed state differs from the stored one, with the buffer size (x, y).
BeginFrame(s, in) ==
    BeginFrameResize(
        Deref(IF s.dx.m_SwapChain /\ in.windowed
              THEN Emit(s, "BeginFrame", NoPass, in.size.w, in.size.h, 1)
              ELSE Emit(s, "BeginFrame", NoPass, 0, 0, 0),
              ~s.dx.m_SwapChain, in.goesOn),
        in)

RECURSIVE RenderEachPass(_, _, _, _)
RenderEachPass(s, i, framebuffer, index) ==
    IF i > Len(s.dm.m_vRenderPasses) THEN s
    ELSE RenderEachPass(
             Emit(s, "Render", s.dm.m_vRenderPasses[i], framebuffer.w, framebuffer.h,
                  index),
             i + 1, framebuffer, index)

\* framebuffer = m_SwapChainFramebuffers[GetCurrentBackBufferIndex()]: a read
\* outside the vector is undefined behaviour.
Render(s, index, goesOn) ==
    RenderEachPass(
        Deref(Emit(s, "DeviceManager::Render", NoPass, index, 0, 0),
              index >= Len(s.dm.m_SwapChainFramebuffers), goesOn),
        1,
        IF index >= Len(s.dm.m_SwapChainFramebuffers) THEN GarbageFramebuffer
        ELSE s.dm.m_SwapChainFramebuffers[index + 1],
        index)

Present(s, ok, goesOn) ==
    Return(Deref(Emit(s, "Present", NoPass,
                      IF s.dm.m_DeviceParams.vsyncEnabled THEN 1 ELSE 0, 0,
                      IF ok THEN 1 ELSE 0),
                 ~s.dx.m_SwapChain, goesOn),
           ok)

\* Times are whole multiples of a quarter of a second.
\* m_FrameTimeSum += elapsedTime; m_NumberOfAccumulatedFrames += 1;
Accumulate(s, elapsedTime) ==
    [s EXCEPT !.dm.m_FrameTimeSum = @ + elapsedTime,
              !.dm.m_NumberOfAccumulatedFrames = @ + 1]

UpdateAverage_AtInterval(s1) ==
    IF s1.dm.m_FrameTimeSum >= s1.dm.m_AverageTimeUpdateInterval
       /\ s1.dm.m_NumberOfAccumulatedFrames > 0
    THEN [s1 EXCEPT !.dm.m_AverageFrameTime =
                        Quotient(s1.dm.m_FrameTimeSum, s1.dm.m_NumberOfAccumulatedFrames),
                    !.dm.m_NumberOfAccumulatedFrames = 0,
                    !.dm.m_FrameTimeSum = 0]
    ELSE s1

\* if (m_FrameTimeSum > m_AverageTimeUpdateInterval && m_NumberOfAccumulatedFrames > 0)
\* { the average is recomputed and both accumulators are reset }
UpdateAverage(s1) ==
    IF s1.dm.m_FrameTimeSum > s1.dm.m_AverageTimeUpdateInterval
       /\ s1.dm.m_NumberOfAccumulatedFrames > 0
    THEN [s1 EXCEPT !.dm.m_AverageFrameTime =
                        Quotient(s1.dm.m_FrameTimeSum, s1.dm.m_NumberOfAccumulatedFrames),
                    !.dm.m_NumberOfAccumulatedFrames = 0,
                    !.dm.m_FrameTimeSum = 0]
    ELSE s1

\* The call is recorded with the elapsed time it is given.
UpdateAverageFrameTime(s, elapsedTime) ==
    IF s.halted THEN s
    ELSE UpdateAverage(
             Accumulate(Emit(s, "UpdateAverageFrameTime", NoPass, elapsedTime, 0, 0),
                        elapsedTime))

\* ++m_FrameIndex; return true;
IncrementFrameIndex(s3) ==
    IF s3.halted THEN s3
    ELSE Return(Emit([s3 EXCEPT !.dm.m_FrameIndex = @ + 1], "IncrementFrameIndex",
                     NoPass, s3.dm.m_FrameIndex + 1, 0, 0),
                TRUE)

\* The part of AnimateRenderPresent after the rendering block.
FinishTick(s, goesOn) ==
    IncrementFrameIndex(
        Emit(UpdateAverageFrameTime(
                 Deref(Emit(s, "runGarbageCollection", NoPass, 0, 0, 0),
                       ~s.dx.m_NvrhiDevice, goesOn),
                 0),
             "StorePreviousFrameTimestamp", NoPass, 0, 0, 0))

\* afterPresent called only when Present succeeded.
AfterPresent_OnlyOnSuccess(s5, frameIndex) ==
    IF s5.halted \/ ~s5.ret THEN s5
    ELSE [Hook(s5, "afterPresent", frameIndex) EXCEPT !.ret = s5.ret]

\* afterPresent(frameIndex); if (!presentSuccess) return false;  s5 is the state
\* after Present.
AfterPresent(s5, frameIndex) ==
    IF s5.halted THEN s5
    ELSE [Hook(s5, "afterPresent", frameIndex) EXCEPT !.ret = s5.ret]

\* if (BeginFrame()) { beforeRender .. afterPresent }: s1 is the state after BeginFrame.
RenderFrame(s1, frameIndex, in) ==
    IF s1.halted THEN s1
    ELSE IF ~s1.ret THEN [s1 EXCEPT !.ret = TRUE]
    ELSE AfterPresent(
             Present(Hook(Hook(Render(Hook(s1, "beforeRender", frameIndex),
                                      in.index, in.goesOn),
                               "afterRender", frameIndex),
                          "beforePresent", frameIndex),
                     in.present, in.goesOn),
             frameIndex)

RenderPresent_SimulationIndex(s, in) ==
    RenderFrame(BeginFrame(s, in), s.dm.m_FrameIndex, in)

\* The rendering block: BeginFrame .. afterPresent; ret = FALSE when Present failed.
RenderPresent(s, in) ==
    RenderFrame(BeginFrame(s, in),
                IF s.dm.m_SkipRenderOnFirstFrame
                THEN Decrement32(s.dm.m_FrameIndex) ELSE s.dm.m_FrameIndex,
                in)

RenderUnlessSkipped_NeverSkips(s3, in) == RenderPresent(s3, in)

\* The test of the rendering block with >= in place of >.
RenderUnlessSkipped_FromIndexZero(s3, in) ==
    IF s3.dm.m_FrameIndex >= 0 \/ ~s3.dm.m_SkipRenderOnFirstFrame
    THEN RenderPresent(s3, in)
    ELSE Return(s3, TRUE)

\* if (m_FrameIndex > 0 || !m_SkipRenderOnFirstFrame) { the rendering block }
RenderUnlessSkipped(s3, in) ==
    IF s3.dm.m_FrameIndex > 0 \/ ~s3.dm.m_SkipRenderOnFirstFrame
    THEN RenderPresent(s3, in)
    ELSE Return(s3, TRUE)

UpdateDisplayScale_KeepsPrevious(s1) ==
    IF \/ s1.dm.m_PrevDPIScaleFactorX # s1.dm.m_DPIScaleFactorX
       \/ s1.dm.m_PrevDPIScaleFactorY # s1.dm.m_DPIScaleFactorY
    THEN DisplayScaleChanged(s1)
    ELSE s1

\* if (m_PrevDPIScaleFactorX != m_DPIScaleFactorX || ..) { DisplayScaleChanged(); .. }
UpdateDisplayScale(s1) ==
    IF \/ s1.dm.m_PrevDPIScaleFactorX # s1.dm.m_DPIScaleFactorX
       \/ s1.dm.m_PrevDPIScaleFactorY # s1.dm.m_DPIScaleFactorY
    THEN [DisplayScaleChanged(s1) EXCEPT
             !.dm.m_PrevDPIScaleFactorX = s1.dm.m_DPIScaleFactorX,
             !.dm.m_PrevDPIScaleFactorY = s1.dm.m_DPIScaleFactorY]
    ELSE s1

FinishUnlessFailed_CountsFailedTick(s4, goesOn) ==
    IF s4.halted THEN s4 ELSE Return(FinishTick(s4, goesOn), s4.ret)

\* A tick whose Present failed returns false at once; s4 is the state after the
\* rendering block.
FinishUnlessFailed(s4, goesOn) ==
    IF s4.halted \/ ~s4.ret THEN s4 ELSE FinishTick(s4, goesOn)

\* AnimateRenderPresent from its focus test on; s1.ret is what
\* ShouldRenderUnfocused returned when it was asked.
AnimateAndRender(s1, in) ==
    IF ~(s1.dm.m_windowVisible /\ (s1.dm.m_windowIsInFocus \/ s1.ret))
    THEN FinishTick(s1, in.goesOn)
    ELSE FinishUnlessFailed(
             RenderUnlessSkipped(
                 Hook(Animate(Hook(UpdateDisplayScale(s1), "beforeAnimate",
                                   s1.dm.m_FrameIndex)),
                      "afterAnimate", s1.dm.m_FrameIndex),
                 in),
             in.goesOn)

AnimateRenderPresent(s, in) ==
    IF s.halted THEN s
    ELSE AnimateAndRender(
             IF s.dm.m_windowVisible /\ ~s.dm.m_windowIsInFocus
             THEN ShouldRenderUnfocused(
                      Emit(s, "AnimateRenderPresent", NoPass, 0, 0, 0), in.unfocused)
             ELSE Emit(s, "AnimateRenderPresent", NoPass, 0, 0, 0),
             in)

\* The density read from the configuration is stored as the DPI scale.
StoreDensity(s, density) ==
    [s EXCEPT !.dm.m_DPIScaleFactorX = density, !.dm.m_DPIScaleFactorY = density]

WindowPosCallback_NoBeforeFrame(s, density, in) ==
    IF s.halted THEN s
    ELSE IF s.dm.m_EnableRenderDuringWindowMovement
            /\ Len(s.dm.m_SwapChainFramebuffers) > 0
    THEN Return(AnimateRenderPresent(StoreDensity(s, density), in), TRUE)
    ELSE StoreDensity(s, density)

\* AnimateRenderPresent() is called for its effects: what it returns is dropped.
WindowPosCallback(s, density, in) ==
    IF s.halted THEN s
    ELSE IF s.dm.m_EnableRenderDuringWindowMovement
            /\ Len(s.dm.m_SwapChainFramebuffers) > 0
    THEN Return(AnimateRenderPresent(
                    Hook(StoreDensity(s, density), "beforeFrame", s.dm.m_FrameIndex), in),
                TRUE)
    ELSE StoreDensity(s, density)

---------------------------------------------------------------------------
(* DeviceManager::RunMessageLoop.  loop.pc is its position: "idle" before the
   call, "poll" at the head of the while loop (the destroyRequested test and
   the event poll), "tick" after the event processing of an iteration, "done"
   after it returned. *)

\* bool waitSuccess = GetDevice()->waitForIdle(), then the function returns.
LeaveMessageLoop(s, goesOn) ==
    IF s.halted THEN s
    ELSE [Deref(Emit(s, "waitForIdle", NoPass, 0, 0, 0), ~s.dx.m_NvrhiDevice, goesOn)
             EXCEPT !.loop.waitForIdle = @ + 1, !.loop.pc = "done"]

\* if (m_windowVisible) { if (!AnimateRenderPresent()) break; }
MessageLoopTick_IgnoresFailure(s, in) ==
    IF s.halted THEN s
    ELSE IF ~s.dm.m_windowVisible THEN [s EXCEPT !.loop.pc = "poll"]
    ELSE LET s1 == AnimateRenderPresent(s, in)
         IN IF s1.halted THEN s1
            ELSE [s1 EXCEPT !.loop.pc = "poll",
                            !.loop.failed = @ \/ ~s1.ret]

\* if (!presentSuccess) break;  s1 is the state after AnimateRenderPresent.
BreakUnlessPresented(s1, goesOn) ==
    IF s1.halted THEN s1
    ELSE IF ~s1.ret THEN LeaveMessageLoop([s1 EXCEPT !.loop.failed = TRUE], goesOn)
    ELSE [s1 EXCEPT !.loop.pc = "poll"]

MessageLoopTick(s, in) ==
    IF s.halted THEN s
    ELSE IF ~s.dm.m_windowVisible THEN [s EXCEPT !.loop.pc = "poll"]
    ELSE BreakUnlessPresented(AnimateRenderPresent(s, in), in.goesOn)

---------------------------------------------------------------------------
(* The state after construction (part_000:605-633) and the actions. *)

\* Display densities read from the configuration are 1..MaxDensity.
MaxDensity == 1
\* m_AverageTimeUpdateInterval = 0.5, in quarters of a second.
DefaultUpdateInterval == 2
DefaultBufferCount == 3

InitManager(skip) ==
    [m_vRenderPasses |-> <<>>,
     m_SwapChainFramebuffers |-> <<>>,
     m_DeviceParams |-> [backBufferWidth |-> DefaultBackBufferWidth,
                         backBufferHeight |-> DefaultBackBufferHeight,
                         swapChainBufferCount |-> DefaultBufferCount,
                         swapChainSampleCount |-> DefaultSampleCount,
                         vsyncEnabled |-> FALSE,
                         enableDebugRuntime |-> FALSE,
                         headlessDevice |-> FALSE,
                         supportExplicitDisplayScaling |-> FALSE],
     m_RequestedVSync |-> FALSE,
     m_SkipRenderOnFirstFrame |-> skip,
     m_EnableRenderDuringWindowMovement |-> FALSE,
     m_windowVisible |-> FALSE,
     m_windowIsInFocus |-> TRUE,
     m_NativeWindow |-> FALSE,
     m_InstanceCreated |-> FALSE,
     m_DPIScaleFactorX |-> 1,
     m_DPIScaleFactorY |-> 1,
     m_PrevDPIScaleFactorX |-> 0,
     m_PrevDPIScaleFactorY |-> 0,
     m_FrameIndex |-> 0,
     m_AverageFrameTime |-> Quotient(0, 1),
     m_AverageTimeUpdateInterval |-> DefaultUpdateInterval,
     m_FrameTimeSum |-> 0,
     m_NumberOfAccumulatedFrames |-> 0]

InitBackend ==
    [m_DxgiFactory |-> FALSE, m_NvrhiDevice |-> FALSE, m_SwapChain |-> FALSE,
     m_RhiBackBuffer |-> NullTexture]

\* The local `timeout` of an iteration of RunMessageLoop: "0" or "-1" while the
\* iteration runs.
NoTimeout == "none"

PollTimeout_AlwaysZero(visible) == "0"

\* int timeout = m_windowVisible ? 0 : -1;
PollTimeout(visible) == IF visible THEN "0" ELSE "-1"

InitWith(passes, skips) ==
    /\ renderPasses = passes
    /\ dm \in {InitManager(skip) : skip \in skips}
    /\ dx = InitBackend
    /\ rp = [announced |-> [p \in AllPasses |-> NoSize]]
    /\ trace = <<>>
    /\ halted = FALSE
    /\ loop = [pc |-> "idle", waitForIdle |-> 0, failed |-> FALSE, timeout |-> NoTimeout]
    /\ op = [name |-> "construct", pass |-> NoPass, before |-> <<>>, ret |-> TRUE]

\* The program runs and is not at the tick of a message-loop iteration.
Ready == ~halted /\ loop.pc # "tick"

\* The application's own code runs: before RunMessageLoop, or in a callback
\* during the event processing of an iteration.
Calling == ~halted /\ loop.pc \in {"idle", "poll"}

\* The message loop processes a polled event (source->process).
Polling == ~halted /\ loop.pc = "poll"

---------------------------------------------------------------------------
(* SwitchableCamera: a first-person, a third-person and a scene camera. *)

\* A null std::shared_ptr<engine::SceneCamera>, or a null BaseCamera*.
NullCamera == "nullptr"

\* The scene graph cameras the application holds.
SceneCameras == {"S1", "S2"}

\* The view (position and direction) of a scene camera.
SceneView(camera) == camera

\* A SwitchableCamera after construction (part_000:359-362), with the views of
\* its two user cameras.
InitCamera ==
    [m_SceneCamera |-> NullCamera, m_UseFirstPerson |-> FALSE,
     m_FirstPerson |-> "F", m_ThirdPerson |-> "T"]

IsFirstPersonActive(c) == c.m_SceneCamera = NullCamera /\ c.m_UseFirstPerson
IsThirdPersonActive(c) == c.m_SceneCamera = NullCamera /\ ~c.m_UseFirstPerson
IsSceneCameraActive(c) == c.m_SceneCamera # NullCamera

\* GetActiveUserCamera that looks at m_UseFirstPerson alone.
GetActiveUserCamera_IgnoresScene(c) ==
    IF c.m_UseFirstPerson THEN "m_FirstPerson" ELSE "m_ThirdPerson"

\* SwitchableCamera::GetActiveUserCamera: the member that is the active user
\* camera, or nullptr.
GetActiveUserCamera(c) ==
    IF IsFirstPersonActive(c) THEN "m_FirstPerson"
    ELSE IF IsThirdPersonActive(c) THEN "m_ThirdPerson"
    ELSE NullCamera

\* SwitchableCamera::SwitchToFirstPerson.
SwitchToFirstPerson(c, copyView) ==
    IF IsFirstPersonActive(c) THEN c
    ELSE [c EXCEPT !.m_FirstPerson =
                       IF ~copyView THEN @
                       ELSE IF c.m_SceneCamera # NullCamera
                       THEN SceneView(c.m_SceneCamera)
                       ELSE c.m_ThirdPerson,
                   !.m_UseFirstPerson = TRUE,
                   !.m_SceneCamera = NullCamera]

\* SwitchableCamera::SwitchToThirdPerson.
SwitchToThirdPerson(c, copyView) ==
    IF IsThirdPersonActive(c) THEN c
    ELSE [c EXCEPT !.m_ThirdPerson =
                       IF ~copyView THEN @
                       ELSE IF c.m_SceneCamera # NullCamera
                       THEN SceneView(c.m_SceneCamera)
                       ELSE c.m_FirstPerson,
                   !.m_UseFirstPerson = FALSE,
                   !.m_SceneCamera = NullCamera]

\* SwitchableCamera::SwitchToSceneCamera, after its assert.
SwitchToSceneCamera(c, sceneCamera) == [c EXCEPT !.m_SceneCamera = sceneCamera]

\* The six methods that direct a user input event to the active user camera.
CameraInputs == {"KeyboardUpdate", "MousePosUpdate", "MouseButtonUpdate",
                 "MouseScrollUpdate", "JoystickButtonUpdate", "JoystickUpdate"}

\* One of the six: the call it makes on the active user camera (none for a
\* nullptr) and what it returns.
CameraInput(s, c, name) ==
    IF GetActiveUserCamera(c) # NullCamera
    THEN [Emit(s, name, GetActiveUserCamera(c), 0, 0, 0) EXCEPT !.ret = TRUE]
    ELSE [s EXCEPT !.ret = FALSE]

\* The pass that is an ImGui_Renderer, where the application has constructed one.
GuiPass == "P1"

\* An ImGui_Renderer after construction, with the ImGui context it draws into:
\* imgui_nvrhi is null until Init, no frame has been begun.  WithinFrame is
\* ImGui's own record that NewFrame has been called and Render has not; calls
\* are the ImGui calls of the most recent handler, each with the WithinFrame it
\* found.
InitGuiRenderer ==
    [imgui_nvrhi |-> FALSE, m_beginFrameCalled |-> FALSE, WithinFrame |-> FALSE,
     calls |-> <<>>]

\* ImGui::NewFrame() or ImGui::Render().
ImGuiCall(g, name, within) ==
    [g EXCEPT !.calls = Append(@, [ev |-> name, within |-> g.WithinFrame]),
              !.WithinFrame = within]

\* ImGui_Renderer::Animate without the m_beginFrameCalled test.
ImGui_Animate_EveryTime(g) ==
    IF ~g.imgui_nvrhi THEN g
    ELSE [ImGuiCall(g, "ImGui::NewFrame", TRUE) EXCEPT !.m_beginFrameCalled = TRUE]

\* ImGui_Renderer::Animate:
\* if (!imgui_nvrhi || m_beginFrameCalled) return; ... ImGui::NewFrame();
\* m_beginFrameCalled = true;
ImGui_Animate(g) ==
    IF ~g.imgui_nvrhi \/ g.m_beginFrameCalled THEN g
    ELSE [ImGuiCall(g, "ImGui::NewFrame", TRUE) EXCEPT !.m_beginFrameCalled = TRUE]

\* ImGui_Renderer::Render:
\* if (!imgui_nvrhi) return; buildUI(); ImGui::Render(); ...
\* m_beginFrameCalled = false;
ImGui_Render(g) ==
    IF ~g.imgui_nvrhi THEN g
    ELSE [ImGuiCall(g, "ImGui::Render", FALSE) EXCEPT !.m_beginFrameCalled = FALSE]

\* ImGui_Renderer::Init: imgui_nvrhi = std::make_unique<ImGui_NVRHI>().
ImGui_Init(g) == [g EXCEPT !.imgui_nvrhi = TRUE]

\* The ImGui_Renderer takes the call recorded as e.
ImGui_Called(g, e) ==
    IF e.pass # GuiPass THEN g
    ELSE IF e.ev = "Animate" THEN ImGui_Animate(g)
    ELSE IF e.ev = "Render" THEN ImGui_Render(g)
    ELSE g

RECURSIVE ImGui_Driven(_, _, _)
\* The ImGui_Renderer takes the calls tr[i], tr[i + 1], ... a handler made.
ImGui_Driven(g, tr, i) ==
    IF i > Len(tr) THEN g
    ELSE ImGui_Driven(ImGui_Called(g, tr[i]), tr, i + 1)

\* The passes after a handler that made the calls tr: the ImGui_Renderer, where
\* there is one, has been called as the manager called GuiPass.
PassesDriven(r, tr) ==
    IF "gui" \notin DOMAIN r THEN r
    ELSE [r EXCEPT !.gui = ImGui_Driven([r.gui EXCEPT !.calls = <<>>], tr, 1)]

\* The handler `name` took the program to state t.  A handler that the message
\* loop runs for a polled event (fromLoop) ends the iteration's event processing.
Apply(t, name, pass, fromLoop) ==
    /\ dm' = t.dm
    /\ dx' = t.dx
    /\ rp' = PassesDriven(t.rp, t.trace)
    /\ trace' = t.trace
    /\ halted' = t.halted
    /\ loop' = IF fromLoop /\ t.loop.pc = "poll" /\ ~t.halted
               THEN [t.loop EXCEPT !.pc = "tick",
                                   !.timeout = PollTimeout(dm.m_windowVisible)]
               ELSE [t.loop EXCEPT !.timeout = NoTimeout]
    /\ op' = [name |-> name, pass |-> pass,
              before |-> IF pass = NoPass THEN <<>> ELSE dm.m_vRenderPasses,
              ret |-> t.ret]
    /\ UNCHANGED renderPasses

DoAddRenderPassToFront ==
    \E p \in renderPasses :
        Calling /\ Apply(AddRenderPassToFront(State, p), "AddRenderPassToFront", p, FALSE)

DoAddRenderPassToBack ==
    \E p \in renderPasses :
        Calling /\ Apply(AddRenderPassToBack(State, p), "AddRenderPassToBack", p, FALSE)

DoRemoveRenderPass ==
    \E p \in renderPasses :
        Calling /\ Apply(RemoveRenderPass(State, p), "RemoveRenderPass", p, FALSE)

Responses == [renderPasses -> BOOLEAN]

DoKeyboardUpdate ==
    \E resp \in Responses :
        Polling /\ Apply(KeyboardUpdate(State, resp), "KeyboardUpdate", NoPass, TRUE)

DoKeyboardCharInput ==
    \E resp \in Responses :
        Polling /\ Apply(KeyboardCharInput(State, resp), "KeyboardCharInput", NoPass, TRUE)

DoMousePosUpdate ==
    \E resp \in Responses, xpos \in {2, 4} :
        Polling /\ Apply(MousePosUpdate(State, xpos, 2, resp), "MousePosUpdate",
                       NoPass, TRUE)

DoMouseButtonUpdate ==
    \E resp \in Responses :
        Polling /\ Apply(MouseButtonUpdate(State, resp), "MouseButtonUpdate", NoPass, TRUE)

DoMouseScrollUpdate ==
    \E resp \in Responses :
        Polling /\ Apply(MouseScrollUpdate(State, resp), "MouseScrollUpdate", NoPass, TRUE)

\* The application (or APP_CMD_INIT_WINDOW) creates the device while none exists.
\* An answer that the handler does not ask for is not given: it keeps one value.
CreateWindowOn(sizes) ==
    /\ Calling
    /\ ~dx.m_SwapChain
    /\ \E params \in CreationParams({FALSE}, {MaxBufferCount}, {FALSE}),
          env \in CreationAnswersOn(sizes, 1..MaxDensity) :
        /\ ~env.instance => ~env.window
        /\ ~env.window => env.size = Size(0, 0) /\ env.density = 1 /\ ~env.device
        /\ ~env.device => env.swapchain = "swapchain_failed"
        /\ env.swapchain # "ok" \/ env.size.w = 0 \/ env.size.h = 0
               => env.resize = "ok"
        /\ Apply(CreateWindowDeviceAndSwapChain(State, params, env),
                 "CreateWindowDeviceAndSwapChain", NoPass, TRUE)

DoCreateWindowDeviceAndSwapChain == CreateWindowOn(WindowSizes)

\* The size that DeviceCreationParameters holds unless the application sets one.
DefaultSize == Size(DefaultBackBufferWidth, DefaultBackBufferHeight)

\* The same on a surface that may also have the size of the parameters.
DoCreateWindowOnSurface == CreateWindowOn(WindowSizes \cup {DefaultSize})

\* APP_CMD_WINDOW_RESIZED.
DoUpdateWindowSize ==
    /\ Polling
    /\ \E sz \in WindowSizes, out \in ResizeOutcomes, goesOn \in BOOLEAN :
        /\ dx.m_NvrhiDevice => goesOn
        /\ ~dx.m_SwapChain \/ ~dm.m_NativeWindow \/ sz.w = 0 \/ sz.h = 0
               => out = "ok"
        /\ Apply(UpdateWindowSize(State, sz.w, sz.h, out, goesOn),
                 "UpdateWindowSize", NoPass, TRUE)

\* APP_CMD_GAINED_FOCUS / APP_CMD_LOST_FOCUS.
\* The application asks for vsync on or off; UpdateWindowSize processes it later.
DoSetVsyncEnabled ==
    /\ Calling
    /\ \E enabled \in BOOLEAN :
          Apply([State EXCEPT !.dm.m_RequestedVSync = enabled],
                "SetVsyncEnabled", NoPass, FALSE)

DoWindowFocusCallback ==
    /\ Polling
    /\ \E focused \in BOOLEAN :
          Apply([State EXCEPT !.dm.m_windowIsInFocus = focused],
                 "WindowFocusCallback", NoPass, TRUE)

\* APP_CMD_TERM_WINDOW, or the application's own call.
DoShutdown ==
    Ready /\ Apply(Shutdown(State), "Shutdown", NoPass, TRUE)

DoRunMessageLoop ==
    /\ Ready
    /\ loop.pc = "idle"
    /\ Apply([State EXCEPT !.loop.pc = "poll"], "RunMessageLoop", NoPass, FALSE)

\* ALooper_pollAll(0, ..) finds no event: only while the window is visible.
\* ALooper_pollAll returns without an event: only a poll that does not wait
\* forever can.
DoPollNoEvent ==
    /\ Ready
    /\ loop.pc = "poll"
    /\ PollTimeout(dm.m_windowVisible) = "0"
    /\ Apply(State, "PollNoEvent", NoPass, TRUE)

\* android_app->destroyRequested is set when the loop tests it.
DoDestroyRequested ==
    /\ Ready
    /\ loop.pc = "poll"
    /\ \E goesOn \in BOOLEAN :
        /\ dx.m_NvrhiDevice => goesOn
        /\ Apply(LeaveMessageLoop(State, goesOn), "DestroyRequested", NoPass, FALSE)

\* The answers `in` that a tick starting now can ask for: an answer that the
\* tick does not ask for is not given (it keeps one value).
AskedOfTick(in) ==
    /\ dm.m_windowIsInFocus \/ ~dm.m_windowVisible => in.unfocused = {}
    /\ in.unfocused \subseteq Range(dm.m_vRenderPasses)
    /\ Cardinality(in.unfocused) <= 1
    /\ ~dm.m_windowVisible \/ (~dm.m_windowIsInFocus /\ in.unfocused = {})
           => ~in.windowed /\ in.index = 0 /\ in.present
    /\ ~in.windowed \/ ~dx.m_SwapChain
           => in.size = Size(1, 1) /\ in.resize = "ok"
    /\ dx.m_SwapChain /\ dx.m_NvrhiDevice
           /\ (in.windowed \/ in.index < Len(dm.m_SwapChainFramebuffers))
           => in.goesOn

\* The tick of a message-loop iteration, modelled while m_FrameIndex < maxIndex.
MessageLoopTickBelow(maxIndex) ==
    /\ ~halted
    /\ loop.pc = "tick"
    /\ dm.m_FrameIndex < maxIndex
    /\ \E in \in TickAnswers(renderPasses, GetBackBufferCount(State)) :
        /\ AskedOfTick(in)
        /\ Apply(MessageLoopTick(State, in), "MessageLoopTick", NoPass, FALSE)

DoMessageLoopTick == MessageLoopTickBelow(MaxFrameIndex)

\* Ticks are modelled while m_FrameIndex < MaxFrames under SpecFrames.
MaxFrames == 3

DoFrameTick == MessageLoopTickBelow(MaxFrames)

\* The application calls CreateInstance itself.  When the instance exists the
\* backend is not asked.
DoCreateInstance ==
    /\ Calling
    /\ \E params \in [enableDebugRuntime : BOOLEAN, headlessDevice : {FALSE}],
          ok \in BOOLEAN :
        /\ dm.m_InstanceCreated => ok
        /\ Apply(CreateInstance(State, params, ok), "CreateInstance", NoPass, FALSE)

\* The application creates a device without a window while no device exists.
DoCreateHeadlessDevice ==
    /\ Calling
    /\ ~dx.m_NvrhiDevice
    /\ \E params \in CreationParams({FALSE}, {MaxBufferCount}, BOOLEAN),
          env \in [instance : BOOLEAN, device : BOOLEAN] :
        /\ dm.m_InstanceCreated => env.instance
        /\ ~env.instance => ~env.device
        /\ Apply(CreateHeadlessDevice(State, params, env), "CreateHeadlessDevice",
                 NoPass, FALSE)

DoSetEnableRenderDuringWindowMovement ==
    /\ Calling
    /\ \E val \in BOOLEAN :
          Apply([State EXCEPT !.dm.m_EnableRenderDuringWindowMovement = val],
                "SetEnableRenderDuringWindowMovement", NoPass, FALSE)

\* The window moved.  Without the render-during-movement mode, or without
\* framebuffers, no tick runs and no tick answer is asked for.
WindowPosCallbackBelow(maxIndex, densities) ==
    /\ Calling
    /\ dm.m_FrameIndex < maxIndex
    /\ \E density \in densities,
          in \in TickAnswers(renderPasses, GetBackBufferCount(State)) :
        /\ AskedOfTick(in)
        /\ ~dm.m_EnableRenderDuringWindowMovement
               \/ Len(dm.m_SwapChainFramebuffers) = 0
               => in.unfocused = {} /\ ~in.windowed /\ in.index = 0
                  /\ in.present /\ in.goesOn
        /\ Apply(WindowPosCallback(State, density, in), "WindowPosCallback",
                 NoPass, FALSE)

DoWindowPosCallback == WindowPosCallbackBelow(MaxFrames, 1..MaxDensity)

\* The window moves between displays of densities 1..MaxScale, during the
\* first MaxScaleFrames ticks.
MaxScale == 2
MaxScaleFrames == 2

DoCreateWindowOfOneSize == CreateWindowOn({Size(MaxWidth, MaxHeight)})

\* The window is created on a display of density 1..MaxScale, by an application
\* that scales explicitly or does not; every creation step succeeds.
DoCreateWindowScaled ==
    /\ Calling
    /\ ~dx.m_SwapChain
    /\ \E explicit \in BOOLEAN, density \in 1..MaxScale :
          Apply(CreateWindowDeviceAndSwapChain(
                    State,
                    [vsyncEnabled |-> FALSE, swapChainBufferCount |-> MaxBufferCount,
                     enableDebugRuntime |-> FALSE,
                     supportExplicitDisplayScaling |-> explicit],
                    [window |-> TRUE, size |-> Size(MaxWidth, MaxHeight),
                     density |-> density, instance |-> TRUE, device |-> TRUE,
                     swapchain |-> "ok", resize |-> "ok"]),
                "CreateWindowDeviceAndSwapChain", NoPass, TRUE)

\* Pointer positions are (0..MaxPointerX, 1..MaxPointerY).
MaxPointerX == 3
MaxPointerY == 2

\* The pointer moved while the loop polls.
DoMotionEventMove ==
    \E resp \in Responses, x \in 0..MaxPointerX, y \in 1..MaxPointerY :
        Polling /\ Apply(OnMotionEventMove(State, x, y, resp), "OnInputEvent",
                         NoPass, TRUE)

DoWindowMoved == WindowPosCallbackBelow(MaxScaleFrames, 1..MaxScale)

DoScaleTick == MessageLoopTickBelow(MaxScaleFrames)

\* The elapsed time of a tick is 0..MaxElapsed quarters of a second.
MaxElapsed == 2
\* The application sets an update interval of 0..MaxInterval quarters of a second.
MaxInterval == 3
\* UpdateAverageFrameTime is modelled while fewer than MaxAccumulated ticks are
\* accumulated.
MaxAccumulated == 4

DoSetFrameTimeUpdateInterval ==
    /\ Calling
    /\ \E seconds \in 0..MaxInterval :
          Apply([State EXCEPT !.dm.m_AverageTimeUpdateInterval = seconds],
                "SetFrameTimeUpdateInterval", NoPass, FALSE)

\* One tick's call of UpdateAverageFrameTime, with the time the clock gives.
DoUpdateAverageFrameTime ==
    /\ Calling
    /\ dm.m_NumberOfAccumulatedFrames < MaxAccumulated
    /\ \E elapsedTime \in 0..MaxElapsed :
          Apply(UpdateAverageFrameTime(State, elapsedTime), "UpdateAverageFrameTime",
                NoPass, FALSE)

FramePasses == {"P1", "P2"}

Init == InitWith(FramePasses, {FALSE})

\* The render-pass list, the device, the swapchain and the loop.
Next ==
    \/ DoAddRenderPassToFront
    \/ DoAddRenderPassToBack
    \/ DoRemoveRenderPass
    \/ DoCreateWindowDeviceAndSwapChain
    \/ DoUpdateWindowSize
    \/ DoWindowFocusCallback
    \/ DoShutdown
    \/ DoRunMessageLoop
    \/ DoPollNoEvent
    \/ DoDestroyRequested
    \/ DoMessageLoopTick

Spec == Init /\ [][Next]_vars

\* The render-pass list and the input dispatch alone, with three passes.
InitInput == InitWith(AllPasses, {FALSE})

NextInput ==
    \/ DoAddRenderPassToFront
    \/ DoAddRenderPassToBack
    \/ DoRemoveRenderPass
    \/ DoKeyboardUpdate
    \/ DoKeyboardCharInput
    \/ DoMousePosUpdate
    \/ DoMouseButtonUpdate
    \/ DoMouseScrollUpdate
    \/ DoRunMessageLoop
    \/ DoMessageLoopTick

SpecInput == InitInput /\ [][NextInput]_vars

\* Several ticks in both skip-render-on-first-frame modes, with one pass: ticks
\* of the message loop and ticks of WindowPosCallback, on a window that is
\* created once and gains and loses the focus.
InitFrames == InitWith({"P1"}, {FALSE, TRUE})

NextFrames ==
    \/ DoAddRenderPassToBack
    \/ DoRemoveRenderPass
    \/ DoCreateWindowDeviceAndSwapChain
    \/ DoWindowFocusCallback
    \/ DoKeyboardUpdate
    \/ DoSetEnableRenderDuringWindowMovement
    \/ DoWindowPosCallback
    \/ DoRunMessageLoop
    \/ DoPollNoEvent
    \/ DoFrameTick

SpecFrames == InitFrames /\ [][NextFrames]_vars

\* The creation calls and Shutdown, in any order, with one pass.
InitCreate == InitWith({"P1"}, {FALSE})

NextCreate ==
    \/ DoAddRenderPassToBack
    \/ DoCreateInstance
    \/ DoCreateHeadlessDevice
    \/ DoCreateWindowOnSurface
    \/ DoUpdateWindowSize
    \/ DoShutdown
    \/ DoRunMessageLoop

SpecCreate == InitCreate /\ [][NextCreate]_vars

\* Ticks on a window that moves between displays of different densities, with
\* two passes.
InitScale == InitWith({"P1", "P2"}, {FALSE})

NextScale ==
    \/ DoAddRenderPassToBack
    \/ DoCreateWindowOfOneSize
    \/ DoWindowFocusCallback
    \/ DoSetEnableRenderDuringWindowMovement
    \/ DoWindowMoved
    \/ DoRunMessageLoop
    \/ DoPollNoEvent
    \/ DoScaleTick

SpecScale == InitScale /\ [][NextScale]_vars

\* Surface changes and vsync requests on a created window, with one pass.
InitVsync == InitWith({"P1"}, {FALSE})

NextVsync ==
    \/ DoAddRenderPassToBack
    \/ DoCreateWindowDeviceAndSwapChain
    \/ DoSetVsyncEnabled
    \/ DoUpdateWindowSize
    \/ DoRunMessageLoop

SpecVsync == InitVsync /\ [][NextVsync]_vars

\* The application calls ImGui_Renderer::Init of the ImGui_Renderer it has
\* constructed.
DoImGuiInit ==
    /\ Calling
    /\ Apply([State EXCEPT !.rp.gui = ImGui_Init(@)], "ImGui_Renderer::Init",
             GuiPass, FALSE)

\* An ImGui_Renderer is the one pass: ticks of the message loop and of
\* WindowPosCallback in both skip-render-on-first-frame modes, on a window that
\* is created once and gains and loses the focus.
InitGui ==
    /\ renderPasses = {GuiPass}
    /\ dm \in {InitManager(skip) : skip \in {FALSE, TRUE}}
    /\ dx = InitBackend
    /\ rp = [announced |-> [p \in AllPasses |-> NoSize], gui |-> InitGuiRenderer]
    /\ trace = <<>>
    /\ halted = FALSE
    /\ loop = [pc |-> "idle", waitForIdle |-> 0, failed |-> FALSE, timeout |-> NoTimeout]
    /\ op = [name |-> "construct", pass |-> NoPass, before |-> <<>>, ret |-> TRUE]

NextGui ==
    \/ DoAddRenderPassToBack
    \/ DoRemoveRenderPass
    \/ DoImGuiInit
    \/ DoCreateWindowOfOneSize
    \/ DoWindowFocusCallback
    \/ DoSetEnableRenderDuringWindowMovement
    \/ DoWindowPosCallback
    \/ DoRunMessageLoop
    \/ DoPollNoEvent
    \/ DoFrameTick

SpecGui == InitGui /\ [][NextGui]_vars

\* A call of the application on the SwitchableCamera that a pass owns: the
\* manager is not involved.
CameraCall(t, c, name) ==
    /\ ~halted
    /\ rp' = [rp EXCEPT !.camera = c]
    /\ trace' = t.trace
    /\ halted' = t.halted
    /\ op' = [name |-> name, pass |-> NoPass, before |-> <<>>, ret |-> t.ret]
    /\ UNCHANGED <<dm, dx, loop, renderPasses>>

DoSwitchToFirstPerson ==
    \E copyView \in BOOLEAN :
        CameraCall(State, SwitchToFirstPerson(rp.camera, copyView),
                   "SwitchToFirstPerson")

DoSwitchToThirdPerson ==
    \E copyView \in BOOLEAN :
        CameraCall(State, SwitchToThirdPerson(rp.camera, copyView),
                   "SwitchToThirdPerson")

\* assert(!!sceneCamera) stops a build with assertions when the argument is
\* null; a build without them stores the null pointer.
DoSwitchToSceneCamera ==
    \E sceneCamera \in SceneCameras \cup {NullCamera}, asserts \in BOOLEAN :
        /\ sceneCamera # NullCamera => ~asserts
        /\ IF sceneCamera = NullCamera /\ asserts
           THEN CameraCall([State EXCEPT !.halted = TRUE], rp.camera,
                           "SwitchToSceneCamera")
           ELSE CameraCall(State, SwitchToSceneCamera(rp.camera, sceneCamera),
                           "SwitchToSceneCamera")

DoCameraInput ==
    \E name \in CameraInputs :
        CameraCall(CameraInput(State, rp.camera, name), rp.camera, name)

\* A SwitchableCamera alone: switches and input events in any order.
InitCameraAlone ==
    /\ renderPasses = {}
    /\ dm = InitManager(FALSE)
    /\ dx = InitBackend
    /\ rp = [announced |-> [p \in AllPasses |-> NoSize], camera |-> InitCamera]
    /\ trace = <<>>
    /\ halted = FALSE
    /\ loop = [pc |-> "idle", waitForIdle |-> 0, failed |-> FALSE, timeout |-> NoTimeout]
    /\ op = [name |-> "construct", pass |-> NoPass, before |-> <<>>, ret |-> TRUE]

NextCamera ==
    \/ DoSwitchToFirstPerson
    \/ DoSwitchToThirdPerson
    \/ DoSwitchToSceneCamera
    \/ DoCameraInput

SpecCamera == InitCameraAlone /\ [][NextCamera]_vars

\* The loop ticks on a created window and the application asks for vsync, with
\* no window event after the creation.  The counters a tick increments are kept
\* modulo MaxVsyncFrames, so that the loop can go round for ever.
MaxVsyncFrames == 3

\* ++m_FrameIndex and m_NumberOfAccumulatedFrames++ in the narrower width.
WrapCounters(s) ==
    [s EXCEPT !.dm.m_FrameIndex = @ % MaxVsyncFrames,
              !.dm.m_NumberOfAccumulatedFrames = @ % MaxVsyncFrames]

\* A tick in which the swapchain's windowed state is as stored.
DoQuietTick ==
    /\ ~halted
    /\ loop.pc = "tick"
    /\ \E in \in TickAnswers(renderPasses, GetBackBufferCount(State)) :
        /\ AskedOfTick(in)
        /\ ~in.windowed
        /\ Apply(WrapCounters(MessageLoopTick(State, in)), "MessageLoopTick",
                 NoPass, FALSE)

InitVsyncLoop == InitWith({"P1"}, {FALSE})

NextVsyncLoop ==
    \/ DoAddRenderPassToBack
    \/ DoCreateWindowOfOneSize
    \/ DoSetVsyncEnabled
    \/ DoRunMessageLoop
    \/ DoPollNoEvent
    \/ DoQuietTick

\* The step of NextVsyncLoop that DoQuietTick takes: the one from the tick of an
\* iteration that leaves MessageLoopTick as the last handler.
LoopTicks ==
    /\ ~halted
    /\ loop.pc = "tick"
    /\ op' \in {[name |-> "MessageLoopTick", pass |-> NoPass, before |-> <<>>,
                 ret |-> r] : r \in BOOLEAN}

\* The while loop of RunMessageLoop goes on: a poll of a visible window returns,
\* and the iteration then ticks.
SpecVsyncLoop ==
    /\ InitVsyncLoop /\ [][NextVsyncLoop]_vars
    /\ WF_vars(DoPollNoEvent) /\ WF_op(LoopTicks)

\* Pointer moves on a window of any density, with and without explicit display
\* scaling, and two passes.
InitPointer == InitWith({"P1", "P2"}, {FALSE})

NextPointer ==
    \/ DoAddRenderPassToBack
    \/ DoCreateWindowScaled
    \/ DoRunMessageLoop
    \/ DoMotionEventMove

SpecPointer == InitPointer /\ [][NextPointer]_vars

\* The frame-time average alone: any elapsed times under any update interval.
InitClock == InitWith({"P1"}, {FALSE})

NextClock ==
    \/ DoSetFrameTimeUpdateInterval
    \/ DoUpdateAverageFrameTime

SpecClock == InitClock /\ [][NextClock]_vars

---------------------------------------------------------------------------
(* The render-pass list and the input dispatch (checked under SpecInput). *)

\* seq without p, kept in order.
Others(seq, p) == SelectSeq(seq, LAMBDA x : x # p)

\* The calls that the last handler made on passes, in the order it made them.
Offered == [i \in 1..Len(trace) |-> trace[i].pass]

\* C5: after any sequence of AddRenderPassToFront / AddRenderPassToBack /
\* RemoveRenderPass calls the list holds each pass at most once; right after
\* AddRenderPassToFront(p) p is the first element, after AddRenderPassToBack(p)
\* the last, after RemoveRenderPass(p) p is absent, and the other passes keep
\* their relative order.
PassListUniqueAndOrdered ==
    LET list == dm.m_vRenderPasses
    IN /\ \A p \in AllPasses : Count(list, p) <= 1
       /\ op.name = "AddRenderPassToFront"
            => /\ Len(list) > 0 /\ list[1] = op.pass
               /\ Others(list, op.pass) = Others(op.before, op.pass)
       /\ op.name = "AddRenderPassToBack"
            => /\ Len(list) > 0 /\ list[Len(list)] = op.pass
               /\ Others(list, op.pass) = Others(op.before, op.pass)
       /\ op.name = "RemoveRenderPass"
            => /\ op.pass \notin Range(list)
               /\ list = Others(op.before, op.pass)

\* A registered pass that was not at the front is added to the front again.
PassMovedToFront ==
    /\ op.name = "AddRenderPassToFront"
    /\ Len(op.before) = 3
    /\ op.before[3] = op.pass
    /\ dm.m_vRenderPasses = <<op.before[3], op.before[1], op.before[2]>>

\* C6 as stated: with the list [P1 (front), P2, P3] a key event is offered to P1
\* first, P2 is asked only after P1 declined, and P3 after P2.
KeyOfferedFrontFirst ==
    op.name = "KeyboardUpdate" /\ dm.m_vRenderPasses = <<"P1", "P2", "P3">>
        => /\ Len(trace) > 0
           /\ Offered = SubSeq(<<"P1", "P2", "P3">>, 1, Len(trace))

\* C6, as the code behaves: a key event is offered to the pass at the BACK of the
\* list first.  With the list [P1 (front), P2, P3], P3 is asked first; if P3
\* consumes the event P2 and P1 are not asked; otherwise P2 is asked next, then P1.
KeyOfferedBackFirst ==
    op.name = "KeyboardUpdate" /\ dm.m_vRenderPasses = <<"P1", "P2", "P3">>
        => /\ Len(trace) > 0
           /\ Offered = SubSeq(<<"P3", "P2", "P1">>, 1, Len(trace))
           /\ \A i \in 1..Len(trace) : trace[i].ev = "KeyboardUpdate"
           /\ \A i \in 1..(Len(trace) - 1) : trace[i].z = 0

\* P3 and P2 declined a key event, so P1 at the front was asked last.
KeyReachedFront ==
    /\ op.name = "KeyboardUpdate"
    /\ dm.m_vRenderPasses = <<"P1", "P2", "P3">>
    /\ Offered = <<"P3", "P2", "P1">>
    /\ trace[3].z = 1

\* C7: for each of the five event types the handlers are called one pass at a
\* time, each registered pass at most once; the dispatch stops at the first
\* handler that returns true, and when no handler returns true every registered
\* pass was called exactly once.
DispatchStopsAtFirstConsumer ==
    op.name \in InputEvents
        => /\ \A i \in 1..Len(trace) :
                 /\ trace[i].ev = op.name
                 /\ trace[i].pass \in Range(dm.m_vRenderPasses)
           /\ \A i, j \in 1..Len(trace) : i # j => trace[i].pass # trace[j].pass
           /\ \A i \in 1..(Len(trace) - 1) : trace[i].z = 0
           /\ (\A i \in 1..Len(trace) : trace[i].z = 0)
                 => /\ Len(trace) = Len(dm.m_vRenderPasses)
                    /\ Range(Offered) = Range(dm.m_vRenderPasses)

\* A pointer-button event was consumed by the second pass asked, of three.
ButtonConsumedBySecond ==
    /\ op.name = "MouseButtonUpdate"
    /\ Len(dm.m_vRenderPasses) = 3
    /\ Len(trace) = 2
    /\ trace[1].z = 0
    /\ trace[2].z = 1

---------------------------------------------------------------------------
(* Resize events (checked under Spec).  A handler runs at most one resize
   event: UpdateWindowSize (also from CreateWindowDeviceAndSwapChain) or the
   BeginFrame of a tick.  Its calls are in `trace`; the call to the backend's
   ResizeSwapChain marks it. *)

ResizeHandlers == {"UpdateWindowSize", "CreateWindowDeviceAndSwapChain",
                   "MessageLoopTick"}

\* The last handler ran a resize event.
Resizes == op.name \in ResizeHandlers /\ Idx(trace, "ResizeSwapChain") # {}

\* The last handler ran a resize event to its end.
Resized == Resizes /\ ~halted /\ Idx(trace, "createFramebuffer") # {}

FramebufferReads == {"DeviceManager::Render", "Render"}

\* C1: in every resize event BackBufferResizing is called on every registered
\* pass before BackBufferResized is called on any pass, and from the first of
\* these calls to the last the framebuffer set is empty and no Render call or
\* framebuffer read is made.
ResizingBeforeResized ==
    LET first == Idx(trace, "BackBufferResizing")
        last == Idx(trace, "BackBufferResized")
    IN op.name \in ResizeHandlers
         => /\ \A i \in first, j \in last : i < j
            /\ Resizes => PassesOf(trace, "BackBufferResizing") = dm.m_vRenderPasses
            /\ last # {} => PassesOf(trace, "BackBufferResized") = dm.m_vRenderPasses
            /\ \A k \in 1..Len(trace) :
                  (\E i \in first : i <= k) /\ (\E j \in last : k <= j)
                     => trace[k].n = 0 /\ trace[k].ev \notin FramebufferReads

\* A resize event replaced the framebuffers of an earlier size, with two passes
\* registered.
ResizedTwoPasses ==
    /\ op.name = "UpdateWindowSize"
    /\ Resized
    /\ Len(dm.m_vRenderPasses) = 2
    /\ PassesOf(trace, "BackBufferResized") = dm.m_vRenderPasses
    /\ dm.m_DeviceParams.backBufferWidth = 2
    /\ Len(dm.m_SwapChainFramebuffers) = MaxBufferCount

\* C2: right after a resize event was processed by BackBufferResized the
\* framebuffer set has GetBackBufferCount() framebuffers, one built for each
\* backbuffer index 0 .. count - 1.
FramebufferPerBackBuffer ==
    LET made == Filter(trace, {"createFramebuffer"})
        count == GetBackBufferCount(State)
    IN Resized
         => /\ Len(dm.m_SwapChainFramebuffers) = count
            /\ [i \in 1..Len(made) |-> made[i].x] = [i \in 1..count |-> i - 1]
            /\ \A i \in 1..count :
                  dm.m_SwapChainFramebuffers[i] = GetBackBuffer(State, i - 1)

\* The BeginFrame of a tick resized the swapchain and rebuilt both framebuffers.
TickRebuiltFramebuffers ==
    /\ op.name = "MessageLoopTick"
    /\ Resized
    /\ Len(dm.m_SwapChainFramebuffers) = MaxBufferCount
    /\ dm.m_SwapChainFramebuffers[MaxBufferCount] = Size(2, 1)

ResizeSteps ==
    Filter(trace, {"BackBufferResizing", "ResizeSwapChain", "BackBufferResized",
                   "createFramebuffer"})

StepRank(ev) ==
    CASE ev = "BackBufferResizing" -> 1
      [] ev = "ResizeSwapChain" -> 2
      [] ev = "BackBufferResized" -> 3
      [] ev = "createFramebuffer" -> 4

\* C4 as stated: at the moment a pass receives BackBufferResized in a resize
\* event, the framebuffer set is already rebuilt (count = backbuffer count).
RebuiltBeforeResizedNotice ==
    Resizes
      => \A i \in Idx(trace, "BackBufferResized") :
            trace[i].n = GetBackBufferCount(State)

\* C4, as the code behaves: within one resize event all passes get
\* BackBufferResizing, then the backend resizes the swapchain, then every pass
\* gets BackBufferResized(width, height, sampleCount) while the framebuffer set
\* is still empty, and only then one framebuffer per backbuffer is built, so the
\* set has backbuffer-count framebuffers when the event ends.
ResizeStepsInCodeOrder ==
    Resizes
      => /\ \A i, j \in 1..Len(ResizeSteps) :
               i < j => StepRank(ResizeSteps[i].ev) <= StepRank(ResizeSteps[j].ev)
         /\ \A i \in Idx(trace, "BackBufferResized") :
               /\ trace[i].n = 0
               /\ trace[i].x = trace[i].bw /\ trace[i].y = trace[i].bh
               /\ trace[i].z = dm.m_DeviceParams.swapChainSampleCount
         /\ Resized =>
               /\ PassesOf(trace, "BackBufferResized") = dm.m_vRenderPasses
               /\ Cardinality(Idx(ResizeSteps, "createFramebuffer")) = GetBackBufferCount(State)
               /\ Len(dm.m_SwapChainFramebuffers) = GetBackBufferCount(State)

\* A whole resize event with two passes: 2 + 1 + 2 + MaxBufferCount calls.
WholeResizeEvent ==
    /\ op.name = "CreateWindowDeviceAndSwapChain"
    /\ Resized
    /\ Len(dm.m_vRenderPasses) = 2
    /\ Len(ResizeSteps) = 5 + MaxBufferCount

---------------------------------------------------------------------------
(* Ticks and the message loop (checked under Spec). *)

\* C3 as stated: whenever Render(framebuffer) is called on a pass, the
\* framebuffer was built for the size most recently announced to that pass
\* through BackBufferResized, which is also the stored backbuffer size.
RenderGetsAnnouncedSize ==
    \A i \in Idx(trace, "Render") :
        /\ Size(trace[i].x, trace[i].y) = trace[i].ann
        /\ Size(trace[i].x, trace[i].y) = Size(trace[i].bw, trace[i].bh)

\* What does hold: a Render call made while the device and the swapchain exist,
\* with a framebuffer read inside the framebuffer set, gets a framebuffer of the
\* size last announced to the pass, which is the stored backbuffer size.
RenderGetsAnnouncedSizeOnLiveDevice ==
    \A i \in Idx(trace, "Render") :
        dx.m_SwapChain /\ dx.m_NvrhiDevice /\ trace[i].z < trace[i].n
          => /\ Size(trace[i].x, trace[i].y) = trace[i].ann
             /\ Size(trace[i].x, trace[i].y) = Size(trace[i].bw, trace[i].bh)

TickCalls == {"DisplayScaleChanged", "beforeAnimate", "Animate", "afterAnimate",
              "BeginFrame", "beforeRender", "Render", "afterRender",
              "beforePresent", "Present", "afterPresent", "runGarbageCollection",
              "UpdateAverageFrameTime", "StorePreviousFrameTimestamp",
              "IncrementFrameIndex"}

\* The calls of TickCalls that the last handler made, as <<name, pass>>.
TickCallsMade ==
    LET f == Filter(trace, TickCalls)
    IN [i \in 1..Len(f) |-> <<f[i].ev, f[i].pass>>]

OnEachPass(ev) ==
    [i \in 1..Len(dm.m_vRenderPasses) |-> <<ev, dm.m_vRenderPasses[i]>>]

Once(ev) == << <<ev, NoPass>> >>

FixedOrder(scaled) ==
    (IF scaled THEN OnEachPass("DisplayScaleChanged") ELSE <<>>)
    \o Once("beforeAnimate") \o OnEachPass("Animate") \o Once("afterAnimate")
    \o Once("BeginFrame") \o Once("beforeRender") \o OnEachPass("Render")
    \o Once("afterRender") \o Once("beforePresent") \o Once("Present")
    \o Once("afterPresent") \o Once("runGarbageCollection")
    \o Once("UpdateAverageFrameTime") \o Once("StorePreviousFrameTimestamp")
    \o Once("IncrementFrameIndex")

IsPrefix(a, b) == Len(a) <= Len(b) /\ a = SubSeq(b, 1, Len(a))

PassCallsAndHooks == {"DisplayScaleChanged", "beforeAnimate", "Animate",
                      "afterAnimate", "beforeRender", "Render", "afterRender",
                      "beforePresent", "afterPresent", "BackBufferResizing",
                      "BackBufferResized"}

\* The ShouldRenderUnfocused calls of the last handler.
Asked == Filter(trace, {"ShouldRenderUnfocused"})

Reverse(seq) == [i \in 1..Len(seq) |-> seq[Len(seq) + 1 - i]]

\* C9: a tick performs Animate, BeginFrame, Render and Present only if the
\* window is visible and (it is in focus or a registered pass answers true to
\* ShouldRenderUnfocused, the passes being asked from the back of the list to
\* the front until the first true); otherwise no pass callback other than the
\* query and no lifecycle hook runs in the tick.
TickOnlyWhenActive ==
    LET yes == \E i \in 1..Len(Asked) : Asked[i].z = 1
        active == dm.m_windowVisible /\ (dm.m_windowIsInFocus \/ yes)
    IN op.name = "MessageLoopTick"
         => /\ (\E k \in 1..Len(trace) :
                   trace[k].ev \in {"Animate", "BeginFrame", "DeviceManager::Render",
                                    "Render", "Present"}) => active
            /\ ~active => \A k \in 1..Len(trace) : trace[k].ev \notin PassCallsAndHooks
            /\ Asked # <<>> => dm.m_windowVisible /\ ~dm.m_windowIsInFocus
            /\ IsPrefix(PassesOf(trace, "ShouldRenderUnfocused"),
                        Reverse(dm.m_vRenderPasses))
            /\ \A i \in 1..(Len(Asked) - 1) : Asked[i].z = 0
            /\ trace # <<>> /\ ~dm.m_windowIsInFocus /\ ~yes
                 => Len(Asked) = Len(dm.m_vRenderPasses)

\* An unfocused tick rendered because the pass at the front said yes after the
\* pass at the back said no.
UnfocusedTickRendered ==
    /\ op.name = "MessageLoopTick"
    /\ ~dm.m_windowIsInFocus
    /\ Len(dm.m_vRenderPasses) = 2
    /\ Len(Asked) = 2
    /\ Asked[1].pass = dm.m_vRenderPasses[2] /\ Asked[1].z = 0
    /\ Asked[2].pass = dm.m_vRenderPasses[1] /\ Asked[2].z = 1
    /\ Idx(trace, "Render") # {}

\* C10: when Present fails in a tick of RunMessageLoop, AnimateRenderPresent
\* returns false, the loop is left within that tick (no further tick starts)
\* and waitForIdle is called exactly once before RunMessageLoop returns.
PresentFailureLeavesLoop ==
    /\ loop.waitForIdle <= 1
    /\ loop.failed => loop.pc = "done" /\ (~halted => loop.waitForIdle = 1)
    /\ op.name = "MessageLoopTick" /\ ~halted
         /\ (\E i \in Idx(trace, "Present") : trace[i].z = 0)
         => /\ ~op.ret
            /\ loop.failed
            /\ Idx(trace, "IncrementFrameIndex") = {}
            /\ Cardinality(Idx(trace, "waitForIdle")) = 1
            /\ trace[Len(trace)].ev = "waitForIdle"

\* Present failed on a live swapchain and RunMessageLoop has returned.
LoopLeftAfterPresentFailure ==
    /\ op.name = "MessageLoopTick"
    /\ ~halted
    /\ dx.m_SwapChain
    /\ loop.failed
    /\ loop.pc = "done"
    /\ trace[Len(trace)].ev = "waitForIdle"

---------------------------------------------------------------------------
(* Ticks on every path, and the frame index (checked under SpecFrames). *)

\* The calls of a tick that animate, render or present.
RenderingCalls == {"Animate", "BeginFrame", "DeviceManager::Render", "Render",
                   "Present"}

\* Present returned false in the last handler.
PresentFailed == \E i \in Idx(trace, "Present") : trace[i].z = 0

\* C11: a Present failure is fatal on every path that runs a tick (RunMessageLoop
\* or WindowPosCallback with render-during-window-movement enabled): once
\* Present has returned false in a handler, the handler that follows it performs
\* no Animate, BeginFrame, Render or Present.
PresentFailureFatalOnEveryPath ==
    [][~halted /\ PresentFailed
         => \A j \in 1..Len(trace') : trace'[j].ev \notin RenderingCalls]_vars

---------------------------------------------------------------------------
(* Creation and shutdown (checked under Spec and SpecCreate). *)

\* The last handler was a CreateWindowDeviceAndSwapChain that returned true.
WindowCreated ==
    op.name = "CreateWindowDeviceAndSwapChain" /\ op.ret /\ ~halted

StoredSize ==
    Size(dm.m_DeviceParams.backBufferWidth, dm.m_DeviceParams.backBufferHeight)

\* The device and the swapchain exist, and either the framebuffer set is built
\* and every registered pass was last told the stored size, or the window has
\* had no size yet: it is invisible and the stored size is still zero, so that
\* the first size it gets differs from the stored one.
ResizedOrDue ==
    /\ dx.m_NvrhiDevice /\ dx.m_SwapChain
    /\ \/ /\ Len(dm.m_SwapChainFramebuffers) = GetBackBufferCount(State)
          /\ \A p \in Range(dm.m_vRenderPasses) : rp.announced[p] = StoredSize
       \/ /\ ~dm.m_windowVisible
          /\ StoredSize = Size(0, 0)

ResizedCalls(tr, p) == {i \in Idx(tr, "BackBufferResized") : tr[i].pass = p}

CreationSteps ==
    Filter(trace, {"CreateInstanceInternal", "CreateDevice", "CreateSwapChain"})

StepNames == [i \in 1..Len(CreationSteps) |-> CreationSteps[i].ev]

\* The steps of the last handler that returned false.
FailedSteps == {i \in 1..Len(CreationSteps) : CreationSteps[i].z = 0}

\* The steps in order, from the instance, or from the device when the instance
\* exists already.
InCreationOrder(order) ==
    IsPrefix(StepNames, order) \/ IsPrefix(StepNames, Tail(order))

ResizeNotices == {"BackBufferResizing", "BackBufferResized"}

\* C14: CreateWindowDeviceAndSwapChain performs instance, device and swapchain
\* creation in that order and returns true only if all three succeeded;
\* CreateHeadlessDevice does the same for instance and device.  When a step
\* fails the call returns false, no later step is attempted, the failed step is
\* not retried, and no resize notification is sent to any pass.
CreationAbortsOnFailure ==
    /\ op.name = "CreateWindowDeviceAndSwapChain" /\ ~halted
         => /\ InCreationOrder(<<"CreateInstanceInternal", "CreateDevice",
                                 "CreateSwapChain">>)
            /\ op.ret => /\ FailedSteps = {}
                         /\ dm.m_InstanceCreated
                         /\ Idx(CreationSteps, "CreateDevice") # {}
                         /\ Idx(CreationSteps, "CreateSwapChain") # {}
    /\ op.name = "CreateHeadlessDevice" /\ ~halted
         => /\ InCreationOrder(<<"CreateInstanceInternal", "CreateDevice">>)
            /\ op.ret => /\ FailedSteps = {}
                         /\ dm.m_InstanceCreated
                         /\ Idx(CreationSteps, "CreateDevice") # {}
    /\ op.name \in {"CreateWindowDeviceAndSwapChain", "CreateHeadlessDevice"}
         /\ FailedSteps # {}
         => /\ ~op.ret
            /\ FailedSteps = {Len(CreationSteps)}
            /\ \A i \in 1..Len(trace) : trace[i].ev \notin ResizeNotices

\* The device creation failed after the instance was created, with a pass
\* registered: the swapchain was not asked for.
CreationStoppedAtDevice ==
    /\ op.name = "CreateWindowDeviceAndSwapChain"
    /\ ~op.ret
    /\ dm.m_vRenderPasses # <<>>
    /\ StepNames = <<"CreateInstanceInternal", "CreateDevice">>
    /\ FailedSteps = {2}

CreationHandlers == {"CreateInstance", "CreateHeadlessDevice",
                     "CreateWindowDeviceAndSwapChain"}

\* The manager's state that a caller can observe, the instance-created flag
\* aside: the stored parameters, the requested vsync, the window handle, the
\* DPI scale, the window-visible flag and the framebuffer set, for manager d.
ObservableState(d) ==
    <<d.m_DeviceParams, d.m_RequestedVSync, d.m_NativeWindow, d.m_DPIScaleFactorX,
      d.m_DPIScaleFactorY, d.m_windowVisible, d.m_SwapChainFramebuffers>>

\* C15: a failed creation call leaves no partial state behind: when
\* CreateInstance, CreateHeadlessDevice or CreateWindowDeviceAndSwapChain
\* returns false, the stored device parameters and requested vsync, the native
\* window handle, the DPI scale, the window-visible flag and the framebuffer set
\* are the same as before the call, and the instance-created flag is too unless
\* the instance layer succeeded; an instance-creation failure leaves the
\* instance-created flag false and creates no device.
FailedCreationLeavesNoState ==
    [][op'.name \in CreationHandlers /\ ~op'.ret /\ ~halted'
         => /\ ObservableState(dm') = ObservableState(dm)
            /\ dm'.m_InstanceCreated # dm.m_InstanceCreated
                 => \E i \in Idx(trace', "CreateInstanceInternal") : trace'[i].z = 1
            /\ (\E i \in Idx(trace', "CreateInstanceInternal") : trace'[i].z = 0)
                 => ~dm'.m_InstanceCreated /\ dx' = dx]_vars

\* A window creation failed at the device and kept the window handle and the
\* surface's size.
FailedCreationKeptWindow ==
    /\ op.name = "CreateWindowDeviceAndSwapChain"
    /\ ~op.ret
    /\ ~dx.m_NvrhiDevice
    /\ dm.m_NativeWindow
    /\ StoredSize = Size(1, 1)

\* C16: CreateInstance is idempotent: when the instance is already created, a
\* further CreateInstance(params) returns true, does not call the backend's
\* CreateInstanceInternal again and leaves the stored instance and device
\* parameters (and all the rest of the manager and the backend) unchanged,
\* whatever params is passed.
CreateInstanceIdempotent ==
    [][op'.name = "CreateInstance" /\ dm.m_InstanceCreated /\ ~halted'
         => /\ op'.ret
            /\ Idx(trace', "CreateInstanceInternal") = {}
            /\ dm' = dm
            /\ dx' = dx]_vars

\* CreateInstance was called with enableDebugRuntime = true on an instance
\* created without it, and made no other call.
CreateInstanceCalledAgain ==
    /\ op.name = "CreateInstance"
    /\ op.ret
    /\ Len(trace) = 1
    /\ trace[1].ev = "CreateInstance" /\ trace[1].x = 1
    /\ dm.m_InstanceCreated
    /\ ~dm.m_DeviceParams.enableDebugRuntime

\* C17: after Shutdown() the framebuffer set is empty, the backend's
\* DestroyDeviceAndSwapChain has been called (no device and no swapchain are
\* left), the native window handle is null and the instance-created flag is
\* false, so that the next CreateInstance, CreateHeadlessDevice or
\* CreateWindowDeviceAndSwapChain calls CreateInstanceInternal again.
ShutdownResetsForNextCreation ==
    /\ [](op.name = "Shutdown" /\ ~halted
            => /\ dm.m_SwapChainFramebuffers = <<>>
               /\ Cardinality(Idx(trace, "DestroyDeviceAndSwapChain")) = 1
               /\ ~dx.m_NvrhiDevice /\ ~dx.m_SwapChain
               /\ dx.m_RhiBackBuffer = NullTexture
               /\ ~dm.m_NativeWindow
               /\ ~dm.m_InstanceCreated)
    /\ [][op.name = "Shutdown" /\ op'.name \in CreationHandlers /\ ~halted'
            => Cardinality(Idx(trace', "CreateInstanceInternal")) = 1]_vars

\* A window creation succeeded after a Shutdown: its CreateInstanceInternal call
\* found the factory of the earlier instance.
CreatedAgainAfterShutdown ==
    /\ WindowCreated
    /\ dm.m_windowVisible
    /\ \E i \in Idx(trace, "CreateInstanceInternal") : trace[i].x = 1
    /\ Len(dm.m_SwapChainFramebuffers) = MaxBufferCount

---------------------------------------------------------------------------
(* The first tick and the frame index (checked under SpecFrames). *)

TickHandlers == {"MessageLoopTick", "WindowPosCallback"}

\* The last handler ran AnimateRenderPresent, and the process runs.
TickRan ==
    op.name \in TickHandlers /\ ~halted /\ Idx(trace, "AnimateRenderPresent") # {}

\* The frame index that the tick of the last handler started with.
TickIndex ==
    IF Idx(trace, "IncrementFrameIndex") # {} THEN dm.m_FrameIndex - 1
    ELSE dm.m_FrameIndex

\* The tick of the last handler passed the visibility and focus test.
TickActive == Idx(trace, "beforeAnimate") # {}

\* Steps 6 and 7: BeginFrame, Render and Present, and their hooks.
RenderSteps == {"BeginFrame", "beforeRender", "DeviceManager::Render", "Render",
                "afterRender", "beforePresent", "Present", "afterPresent"}

\* What a tick does after the rendering block.
TickEnd ==
    Once("runGarbageCollection") \o Once("UpdateAverageFrameTime")
    \o Once("StorePreviousFrameTimestamp") \o Once("IncrementFrameIndex")

\* A tick that animates and does not render.
AnimateOnly(scaled) ==
    (IF scaled THEN OnEachPass("DisplayScaleChanged") ELSE <<>>)
    \o Once("beforeAnimate") \o OnEachPass("Animate") \o Once("afterAnimate")

AnimateHooks == {"beforeAnimate", "afterAnimate"}
RenderHooks == {"beforeRender", "afterRender", "beforePresent", "afterPresent"}

\* The frame indexes that the last handler passed to the hooks named in `hooks`.
IndexesGiven(hooks) == {trace[i].x : i \in {k \in 1..Len(trace) : trace[k].ev \in hooks}}

\* The render/present index of a tick that starts at TickIndex.
RenderIndex ==
    IF dm.m_SkipRenderOnFirstFrame THEN TickIndex - 1 ELSE TickIndex

\* In the tick of the last handler the animate hooks got the frame index and
\* the render and present hooks got the render/present index.
HooksGetTickIndexes ==
    /\ IndexesGiven(AnimateHooks) \subseteq {TickIndex}
    /\ IndexesGiven(RenderHooks) \subseteq {RenderIndex}
    /\ TickActive => IndexesGiven(AnimateHooks) = {TickIndex}

IndexPassedOver ==
    /\ TickRan
    /\ ~dm.m_SkipRenderOnFirstFrame
    /\ ~TickActive
    /\ dm.m_FrameIndex = 2
    /\ Idx(trace, "IncrementFrameIndex") # {}

---------------------------------------------------------------------------
(* The frame-time average (checked under SpecClock). *)

\* The elapsed time given to the UpdateAverageFrameTime call of the handler
\* whose calls are tr.
ElapsedGiven(tr) == tr[1].x

\* The step is a call of UpdateAverageFrameTime in which the average is
\* recomputed exactly when `reached` holds of the accumulated time and the
\* interval.
AverageFollows(reached(_, _)) ==
    LET time == dm.m_FrameTimeSum + ElapsedGiven(trace')
        count == dm.m_NumberOfAccumulatedFrames + 1
    IN op'.name = "UpdateAverageFrameTime"
         => /\ dm'.m_AverageTimeUpdateInterval = dm.m_AverageTimeUpdateInterval
            /\ IF reached(time, dm.m_AverageTimeUpdateInterval)
               THEN /\ dm'.m_AverageFrameTime = Quotient(time, count)
                    /\ dm'.m_FrameTimeSum = 0
                    /\ dm'.m_NumberOfAccumulatedFrames = 0
               ELSE /\ dm'.m_AverageFrameTime = dm.m_AverageFrameTime
                    /\ dm'.m_FrameTimeSum = time
                    /\ dm'.m_NumberOfAccumulatedFrames = count

\* C21 as stated: the reported average frame time changes only on a tick at
\* which the accumulated time has reached the interval (accumulated time >=
\* interval, the case of equality included); at that tick it becomes
\* accumulated time / accumulated count and both accumulators are reset to
\* zero; on every other tick the average is unchanged.
AverageUpdatesAtInterval ==
    [][AverageFollows(LAMBDA time, interval : time >= interval)]_vars

\* C21, as the code behaves: the average is recomputed (accumulated time /
\* accumulated count, both accumulators reset to zero) only on a tick at which
\* the accumulated time exceeds the interval; a tick at which it equals the
\* interval exactly leaves the average unchanged and keeps accumulating.
AverageUpdatesPastInterval ==
    [][AverageFollows(LAMBDA time, interval : time > interval)]_vars

\* Two ticks have accumulated exactly the default interval and the average is
\* still the initial one.
AccumulatedExactlyTheInterval ==
    /\ op.name = "UpdateAverageFrameTime"
    /\ dm.m_AverageTimeUpdateInterval = DefaultUpdateInterval
    /\ dm.m_FrameTimeSum = DefaultUpdateInterval
    /\ dm.m_NumberOfAccumulatedFrames = 2
    /\ dm.m_AverageFrameTime = Quotient(0, 1)

---------------------------------------------------------------------------
(* The display scale (checked under SpecScale). *)

\* The passes called with ev in tr, in call order, with the arguments given.
CallsOf(tr, ev) ==
    LET calls == SelectSeq(tr, LAMBDA e : e.ev = ev)
    IN [i \in 1..Len(calls) |-> <<calls[i].pass, calls[i].x, calls[i].y>>]

\* ev called once on every registered pass, front to back, with (x, y).
EachPassGiven(x, y) ==
    [i \in 1..Len(dm.m_vRenderPasses) |-> <<dm.m_vRenderPasses[i], x, y>>]

\* Every position of a in tr is before every position of b.
AllBefore(tr, a, b) == \A i \in Idx(tr, a), j \in Idx(tr, b) : i < j

\* The display scale and the scale that the passes were last told.
Scale(d) == <<d.m_DPIScaleFactorX, d.m_DPIScaleFactorY>>
PrevScale(d) == <<d.m_PrevDPIScaleFactorX, d.m_PrevDPIScaleFactorY>>

\* C22: a tick that animates while the current scale differs from the previous
\* one sends DisplayScaleChanged(current X, current Y) exactly once to every
\* registered pass, before every Animate call of that tick; after the tick
\* previous == current; a tick that finds previous == current, and a tick that
\* does not animate, send no DisplayScaleChanged, and outside ticks the
\* previous scale does not change and nothing is sent.  (WindowPosCallback stores
\* the display's density before it ticks, so the current scale of a tick is the
\* scale after the step.)
ScaleChangeToldOnceBeforeAnimate ==
    [][LET ticked == op'.name \in TickHandlers /\ Idx(trace', "beforeAnimate") # {}
       IN IF ticked /\ PrevScale(dm) # Scale(dm')
          THEN /\ CallsOf(trace', "DisplayScaleChanged")
                    = EachPassGiven(dm'.m_DPIScaleFactorX, dm'.m_DPIScaleFactorY)
               /\ AllBefore(trace', "DisplayScaleChanged", "Animate")
               /\ AllBefore(trace', "DisplayScaleChanged", "beforeAnimate")
               /\ PrevScale(dm') = Scale(dm')
          ELSE /\ Idx(trace', "DisplayScaleChanged") = {}
               /\ PrevScale(dm') = PrevScale(dm)]_vars

\* The second tick, on a window that moved to a display of density 2: both
\* passes are told (2, 2) and then animated.
RescaledTickToldBothPasses ==
    /\ op.name \in TickHandlers /\ ~halted
    /\ dm.m_FrameIndex = 2
    /\ Scale(dm) = <<2, 2>> /\ PrevScale(dm) = <<2, 2>>
    /\ CallsOf(trace, "DisplayScaleChanged") = << <<"P1", 2, 2>>, <<"P2", 2, 2>> >>
    /\ Cardinality(Idx(trace, "Animate")) = 2

\* The second tick animates both passes and tells them no scale.
SameScaleTickToldNobody ==
    /\ op.name \in TickHandlers /\ ~halted
    /\ dm.m_FrameIndex = 2
    /\ Idx(trace, "DisplayScaleChanged") = {}
    /\ Cardinality(Idx(trace, "Animate")) = 2

---------------------------------------------------------------------------
(* The lifecycle hooks of a tick (checked under SpecFrames). *)

LifecycleHooks == <<"beforeFrame", "beforeAnimate", "afterAnimate", "beforeRender",
                    "afterRender", "beforePresent", "afterPresent">>

\* The lifecycle hooks called in tr, in call order.
HooksCalled(tr) ==
    LET calls == SelectSeq(tr, LAMBDA e : \E i \in 1..7 : e.ev = LifecycleHooks[i])
    IN [i \in 1..Len(calls) |-> calls[i].ev]

\* The step is a tick of RunMessageLoop or of WindowPosCallback that ran
\* AnimateRenderPresent to its end or to a failed Present.
StepTicks ==
    op'.name \in TickHandlers /\ ~halted' /\ Idx(trace', "AnimateRenderPresent") # {}

\* The tick of the step passes the visibility and focus test: neither handler
\* changes the visibility or the focus.
StepAnimates ==
    /\ dm.m_windowVisible
    /\ dm.m_windowIsInFocus
         \/ \E i \in Idx(trace', "ShouldRenderUnfocused") : trace'[i].z = 1

\* The tick of the step is not the first tick of skip-render-on-first-frame mode.
StepRenders == dm.m_FrameIndex > 0 \/ ~dm.m_SkipRenderOnFirstFrame

\* C23 as stated: each of the seven lifecycle hooks, when registered, is invoked
\* unconditionally exactly once in every tick that RunMessageLoop or
\* WindowPosCallback runs, in the fixed order beforeFrame, beforeAnimate,
\* afterAnimate, beforeRender, afterRender, beforePresent, afterPresent.
EveryTickCallsSevenHooks ==
    [][StepTicks => HooksCalled(trace') = LifecycleHooks]_vars

\* C23, as the code behaves: the registered hooks that a tick invokes are invoked
\* once each, in the fixed order, and which ones it invokes depends on the
\* tick: beforeFrame only in a tick of WindowPosCallback, never in a tick of
\* RunMessageLoop; beforeAnimate and afterAnimate only in a tick that passes the
\* visibility and focus test; the four render and present hooks only in such a
\* tick that is not the skipped first tick of skip-render-on-first-frame mode.
HooksInOrderWhereTheTickGoes ==
    [][StepTicks
         => HooksCalled(trace')
              = SubSeq(LifecycleHooks, 1, IF op'.name = "WindowPosCallback" THEN 1 ELSE 0)
                \o SubSeq(LifecycleHooks, 2,
                          IF ~StepAnimates THEN 1 ELSE IF StepRenders THEN 7 ELSE 3)]_vars

\* A tick of the message loop animated, rendered and presented: its six hooks
\* were called, beforeFrame was not.
LoopTickWithoutBeforeFrame ==
    /\ op.name = "MessageLoopTick" /\ ~halted
    /\ Idx(trace, "Present") # {}
    /\ HooksCalled(trace) = SubSeq(LifecycleHooks, 2, 7)

\* A tick of WindowPosCallback called all seven hooks.
MovedTickCalledSevenHooks ==
    /\ op.name = "WindowPosCallback" /\ ~halted
    /\ HooksCalled(trace) = LifecycleHooks

---------------------------------------------------------------------------
(* UpdateWindowSize and vsync (checked under SpecVsync). *)

\* The size of the surface that the UpdateWindowSize call of tr was answered.
SurfaceSize(tr) ==
    Size(tr[CHOOSE i \in Idx(tr, "ANativeWindow_getWidth") : TRUE].z,
         tr[CHOOSE i \in Idx(tr, "ANativeWindow_getHeight") : TRUE].z)

\* The step is a call of UpdateWindowSize that finds a surface of non-zero size.
StepUpdatesSurface ==
    /\ op'.name = "UpdateWindowSize"
    /\ Idx(trace', "ANativeWindow_getWidth") # {}
    /\ SurfaceSize(trace').w # 0 /\ SurfaceSize(trace').h # 0

\* The resize sequence runs in the step: the swapchain is asked to resize.
StepResizes == Idx(trace', "ResizeSwapChain") # {}

\* The step asks for the surface's size and does nothing else: no pass is
\* notified, and the framebuffers, the backend and the stored size stay.
StepLeavesSwapChainAlone ==
    /\ \A i \in 1..Len(trace') :
           trace'[i].ev \in {"ANativeWindow_getWidth", "ANativeWindow_getHeight"}
    /\ dm'.m_SwapChainFramebuffers = dm.m_SwapChainFramebuffers
    /\ dx' = dx /\ rp' = rp
    /\ StoredSize' = StoredSize

\* The step resizes exactly when `differs` holds, and otherwise notifies no
\* pass and leaves the framebuffers alone.
ResizesExactlyIf(differs) ==
    StepUpdatesSurface
      => /\ StepResizes <=> differs
         /\ ~differs => StepLeavesSwapChainAlone

\* C24 as stated: UpdateWindowSize, for a surface of non-zero size, performs
\* the resize sequence if and only if the surface's pixel size differs from the
\* stored backbuffer size or the requested vsync setting differs from the stored
\* vsync setting, on every backend; when neither differs, no pass is notified
\* and the framebuffer set is untouched.
ResizesOnSizeOrVsyncChange ==
    [][ResizesExactlyIf(\/ SurfaceSize(trace') # StoredSize
                        \/ dm.m_RequestedVSync # dm.m_DeviceParams.vsyncEnabled)]_vars

\* C24, as the code behaves on the D3D11 backend: UpdateWindowSize, for a
\* surface of non-zero size, performs the resize sequence if and only if the
\* surface's pixel size differs from the stored backbuffer size; a vsync
\* request that differs from the stored setting starts no resize (the code
\* counts it on the Vulkan backend only): no pass is notified, the framebuffers
\* are untouched, and the stored vsync setting takes the requested value.
ResizesOnSizeChangeOnly ==
    [][/\ ResizesExactlyIf(SurfaceSize(trace') # StoredSize)
       /\ StepUpdatesSurface /\ ~halted'
            => dm'.m_DeviceParams.vsyncEnabled = dm.m_RequestedVSync]_vars

\* UpdateWindowSize took a requested vsync on a surface of the stored size and
\* notified no pass.
VsyncTakenWithoutResize ==
    /\ op.name = "UpdateWindowSize"
    /\ Len(trace) = 2
    /\ Len(dm.m_SwapChainFramebuffers) > 0
    /\ Len(dm.m_vRenderPasses) = 1
    /\ dm.m_DeviceParams.vsyncEnabled /\ dm.m_RequestedVSync

---------------------------------------------------------------------------
(* A missing window surface (checked under Spec). *)

\* What a tick does in steps 3 to 9.
PausedCalls == {"DisplayScaleChanged", "Animate", "Render", "Present",
                "runGarbageCollection", "UpdateAverageFrameTime",
                "StorePreviousFrameTimestamp", "IncrementFrameIndex"}

\* C25: while the window surface is missing (the window was destroyed
\* mid-session) the manager treats the window as not visible: no handler makes a
\* DisplayScaleChanged, Animate, Render, Present, garbage-collection, clock or
\* frame-index call, and the step in which the surface goes missing does not
\* tear down the device and the swapchain.
MissingSurfacePausesRendering ==
    /\ [](~dm.m_NativeWindow => \A i \in 1..Len(trace) : trace[i].ev \notin PausedCalls)
    /\ [][dm.m_NativeWindow /\ ~dm'.m_NativeWindow
            => dx'.m_NvrhiDevice = dx.m_NvrhiDevice /\ dx'.m_SwapChain = dx.m_SwapChain]_vars

\* The loop ticked on a window that had been created and destroyed: the pass was
\* animated without a surface.
AnimatedWithoutSurface ==
    /\ op.name = "MessageLoopTick"
    /\ ~dm.m_NativeWindow /\ ~dx.m_NvrhiDevice
    /\ StoredSize.w \in 1..MaxWidth
    /\ dm.m_windowVisible
    /\ Idx(trace, "Animate") # {}

\* The window went missing and UpdateWindowSize was told: the loop waits, the
\* device is gone all the same.
HiddenWithoutDevice ==
    /\ op.name = "UpdateWindowSize"
    /\ ~dm.m_NativeWindow /\ ~dx.m_NvrhiDevice /\ ~dm.m_windowVisible
    /\ StoredSize.w \in 1..MaxWidth

---------------------------------------------------------------------------
(* A failed swapchain resize (checked under Spec). *)

\* The resize event of the last handler failed: the swapchain was asked to
\* resize and has no render target.
ResizeFailed == Resizes /\ dx.m_SwapChain /\ dx.m_RhiBackBuffer = NullTexture

\* The position of the ResizeSwapChain call in the calls of the last handler.
ResizeAt == CHOOSE i \in Idx(trace, "ResizeSwapChain") : TRUE

AfterResize == {"createFramebuffer", "BackBufferResized", "Render",
                "DeviceManager::Render", "Present"}

\* C26: a swapchain resize failure is a hard stop: when the backend's
\* ResizeSwapChain fails (ResizeBuffers or CreateRenderTarget fails), the
\* handler ends there with log::fatal, the framebuffer set is not rebuilt, no
\* pass gets BackBufferResized, and no Render or Present follows, in that
\* handler or in a later one (the process has stopped).
ResizeFailureIsHardStop ==
    /\ [](ResizeFailed
            => /\ halted
               /\ trace[Len(trace)].ev = "log::fatal"
               /\ \A i \in ResizeAt..Len(trace) : trace[i].ev \notin AfterResize
               /\ dm.m_SwapChainFramebuffers = <<>>)
    /\ [][~halted]_vars

\* UpdateWindowSize told two passes that the backbuffer is resizing, and the
\* resize failed.
ResizeFailedAfterResizing ==
    /\ op.name = "UpdateWindowSize"
    /\ ResizeFailed
    /\ Cardinality(Idx(trace, "BackBufferResizing")) = 2

\* The BeginFrame of a tick failed to resize.
ResizeFailedInTick ==
    /\ op.name = "MessageLoopTick"
    /\ ResizeFailed
    /\ Idx(trace, "Animate") # {}

---------------------------------------------------------------------------
(* The resize of BeginFrame (checked under Spec). *)

ResizeNames == {"BackBufferResizing", "ResizeSwapChain", "BackBufferResized",
                "createFramebuffer"}

\* The calls named in evs in tr, in call order, each with its pass.
CallsAmong(tr, evs) ==
    LET calls == Filter(tr, evs)
    IN [i \in 1..Len(calls) |-> <<calls[i].ev, calls[i].pass>>]

\* The step is a tick whose BeginFrame returned.
StepBeginsFrame ==
    op'.name \in TickHandlers /\ ~halted' /\ Idx(trace', "BeginFrame") # {}

\* C27: when the BeginFrame of a tick finds that the swapchain's windowed state
\* differs from the stored one, it completes a full resize before it returns:
\* BackBufferResizing on all passes, the stored backbuffer size set to the
\* swapchain's new size, the swapchain resize, BackBufferResized on all passes
\* with the new size and the framebuffers rebuilt, all before the Render calls of
\* that tick, which get framebuffers of the new size.  When the state is
\* unchanged BeginFrame notifies no pass and the stored parameters, the
\* framebuffers and the backend stay as they are.
BeginFrameResizesBeforeRender ==
    [][LET tr == trace'
           b == CHOOSE i \in Idx(tr, "BeginFrame") : TRUE
           new == Size(tr[b].x, tr[b].y)
           count == GetBackBufferCount(State)
       IN StepBeginsFrame
            => IF tr[b].z = 1
               THEN /\ CallsAmong(tr, ResizeNames)
                         = OnEachPass("BackBufferResizing") \o Once("ResizeSwapChain")
                           \o OnEachPass("BackBufferResized")
                           \o [i \in 1..count |-> <<"createFramebuffer", NoPass>>]
                    /\ \A i \in 1..Len(tr) : tr[i].ev \in ResizeNames => i > b
                    /\ \A i \in 1..Len(tr), j \in Idx(tr, "DeviceManager::Render") :
                           tr[i].ev \in ResizeNames => i < j
                    /\ StoredSize' = new
                    /\ \A i \in Idx(tr, "ResizeSwapChain") \cup Idx(tr, "BackBufferResized") :
                           Size(tr[i].x, tr[i].y) = new
                    /\ dm'.m_SwapChainFramebuffers = [i \in 1..count |-> new]
                    /\ Idx(tr, "DeviceManager::Render") # {}
                    /\ \A i \in Idx(tr, "Render") : Size(tr[i].x, tr[i].y) = new
               ELSE /\ CallsAmong(tr, ResizeNames) = <<>>
                    /\ dm'.m_DeviceParams = dm.m_DeviceParams
                    /\ dm'.m_SwapChainFramebuffers = dm.m_SwapChainFramebuffers
                    /\ dx' = dx /\ rp' = rp]_vars

\* A tick whose BeginFrame found the windowed state changed: two passes were
\* told a size other than the one they knew, and rendered to it.
RenderedAfterBeginFrameResize ==
    /\ op.name = "MessageLoopTick" /\ ~halted
    /\ \E b \in Idx(trace, "BeginFrame") :
          /\ trace[b].z = 1
          /\ Size(trace[b].bw, trace[b].bh) # Size(trace[b].x, trace[b].y)
          /\ StoredSize = Size(trace[b].x, trace[b].y)
    /\ Cardinality(Idx(trace, "BackBufferResized")) = 2
    /\ Cardinality(Idx(trace, "Render")) = 2

---------------------------------------------------------------------------
(* Pointer coordinates (checked under SpecPointer). *)

\* The fraction q is the quotient n / d.
IsQuotient(q, n, d) == q.den > 0 /\ q.num * d = n * q.den

\* C28: MousePosUpdate(x, y) delivers (x / DPI scale X, y / DPI scale Y) to the
\* passes when explicit display scaling is not enabled and exactly (x, y) when
\* it is enabled; every pass that is offered the event gets the same
\* coordinates.
PointerInLogicalPixels ==
    op.name = "OnInputEvent"
      => \A i \in Idx(trace, "MousePosUpdate") :
            /\ IF dm.m_DeviceParams.supportExplicitDisplayScaling
               THEN /\ IsQuotient(trace[i].x, trace[1].x, 1)
                    /\ IsQuotient(trace[i].y, trace[1].y, 1)
               ELSE /\ IsQuotient(trace[i].x, trace[1].x, dm.m_DPIScaleFactorX)
                    /\ IsQuotient(trace[i].y, trace[1].y, dm.m_DPIScaleFactorY)
            /\ \A j \in Idx(trace, "MousePosUpdate") :
                  trace[i].x = trace[j].x /\ trace[i].y = trace[j].y

\* A move to (3, 1) at scale 2 without explicit scaling was offered to two
\* passes as (3/2, 1/2).
HalfPixelOfferedToTwoPasses ==
    /\ op.name = "OnInputEvent"
    /\ ~dm.m_DeviceParams.supportExplicitDisplayScaling
    /\ dm.m_DPIScaleFactorX = 2
    /\ trace[1].x = 3 /\ trace[1].y = 1
    /\ Cardinality(Idx(trace, "MousePosUpdate")) = 2
    /\ \A i \in Idx(trace, "MousePosUpdate") :
          trace[i].x = [num |-> 3, den |-> 2] /\ trace[i].y = [num |-> 1, den |-> 2]

\* With explicit scaling a move to (3, 1) at scale 2 was offered as (3, 1).
UnscaledWithExplicitScaling ==
    /\ op.name = "OnInputEvent"
    /\ dm.m_DeviceParams.supportExplicitDisplayScaling
    /\ dm.m_DPIScaleFactorX = 2
    /\ \E i \in Idx(trace, "MousePosUpdate") :
          trace[i].x = [num |-> 3, den |-> 1] /\ trace[i].y = [num |-> 1, den |-> 1]

---------------------------------------------------------------------------
(* The event wait of RunMessageLoop (checked under Spec). *)

\* C29: in every iteration of RunMessageLoop the event wait uses a zero timeout
\* when the window is visible at the start of the iteration and an infinite
\* timeout (-1) when it is not, so a wait returns without an event only while
\* the window is visible; and AnimateRenderPresent is called in an iteration if
\* and only if the window is visible after the event processing of that
\* iteration.
WaitsForeverOnlyWhileHidden ==
    [][/\ loop.pc = "poll" /\ loop'.pc = "tick"
            => loop'.timeout = (IF dm.m_windowVisible THEN "0" ELSE "-1")
       /\ op'.name = "PollNoEvent" => dm.m_windowVisible /\ loop'.timeout = "0"
       /\ op'.name = "MessageLoopTick"
            => (Idx(trace', "AnimateRenderPresent") # {} <=> dm.m_windowVisible)]_vars

\* An infinite wait ended with an event that made the window visible: the
\* iteration will tick.
WokenByVisibleWindow ==
    /\ loop.pc = "tick"
    /\ loop.timeout = "-1"
    /\ op.name = "UpdateWindowSize"
    /\ dm.m_windowVisible

\* An iteration whose event hid the window ended without a tick.
IterationWithoutTick ==
    /\ op.name = "MessageLoopTick" /\ ~halted
    /\ ~dm.m_windowVisible
    /\ trace = <<>>
    /\ loop.pc = "poll"

---------------------------------------------------------------------------
(* Skip-render-on-first-frame mode under focus changes (checked under
   SpecFrames). *)

\* No tick has animated yet: the passes were never told a display scale, which
\* the first tick that passes the visibility and focus test tells them.
NeverAnimated == PrevScale(dm) = <<0, 0>>

\* ev is called once on every registered pass in the step, and nowhere else.
StepCallsEachPassOnce(ev) ==
    CallsAmong(trace', {ev}) = OnEachPass(ev)

\* C30: with skip-render-on-first-frame mode enabled the sequence is
\* A0 A1 R0 P0 A2 R1 P1 ... under every interleaving of focus changes with
\* ticks: the first tick that animates the passes renders and presents nothing,
\* so that two Animate calls precede the first Render, and every later tick
\* that passes the visibility and focus test performs one Animate per pass
\* followed by one Render per pass and one Present.
TwoAnimatesBeforeFirstRender ==
    [][dm.m_SkipRenderOnFirstFrame /\ StepTicks /\ StepAnimates
         => /\ StepCallsEachPassOnce("Animate")
            /\ IF NeverAnimated
               THEN Idx(trace', "Render") = {} /\ Idx(trace', "Present") = {}
               ELSE /\ StepCallsEachPassOnce("Render")
                    /\ Cardinality(Idx(trace', "Present")) = 1
                    /\ AllBefore(trace', "Animate", "Render")
                    /\ AllBefore(trace', "Render", "Present")]_vars

\* In skip mode the first tick that animated the pass also rendered and
\* presented: the frame index had been moved on by a tick out of focus.
RenderedAfterOneAnimate ==
    /\ op.name \in TickHandlers /\ ~halted
    /\ dm.m_SkipRenderOnFirstFrame
    /\ dm.m_FrameIndex = 2
    /\ Idx(trace, "DisplayScaleChanged") # {}
    /\ Idx(trace, "Animate") # {}
    /\ Idx(trace, "Render") # {}
    /\ Idx(trace, "Present") # {}

---------------------------------------------------------------------------
(* A vsync request and the message loop (checked under SpecVsyncLoop). *)

\* IsVsyncEnabled() returns what SetVsyncEnabled asked for.
VsyncTaken == dm.m_DeviceParams.vsyncEnabled = dm.m_RequestedVSync

\* The message loop runs on a visible window with a swapchain.
LoopTicking ==
    ~halted /\ loop.pc \in {"poll", "tick"} /\ dm.m_windowVisible /\ dx.m_SwapChain

\* C31: SetVsyncEnabled(v) is processed later without any further window event:
\* while the message loop keeps ticking with a visible window, IsVsyncEnabled()
\* eventually equals v (and the Present calls from then on use v), unless the
\* loop has ended; until then the stored device parameters other than vsync are
\* unchanged.
VsyncRequestTakenByLoop ==
    /\ (LoopTicking /\ ~VsyncTaken) ~> (VsyncTaken \/ ~LoopTicking)
    /\ [][LoopTicking /\ ~VsyncTaken
            => [dm'.m_DeviceParams EXCEPT !.vsyncEnabled = FALSE]
                 = [dm.m_DeviceParams EXCEPT !.vsyncEnabled = FALSE]]_vars

\* No iteration of the loop changes the stored vsync setting.
LoopKeepsStoredVsync ==
    [][op'.name \in {"MessageLoopTick", "PollNoEvent"}
         => dm'.m_DeviceParams.vsyncEnabled = dm.m_DeviceParams.vsyncEnabled]_vars

\* A tick of the loop presented without vsync although vsync had been asked
\* for two ticks earlier.
PresentedWithoutRequestedVsync ==
    /\ op.name = "MessageLoopTick" /\ ~halted
    /\ dm.m_FrameIndex = MaxVsyncFrames - 1
    /\ dm.m_RequestedVSync /\ ~dm.m_DeviceParams.vsyncEnabled
    /\ \E i \in Idx(trace, "Present") : trace[i].x = 0

---------------------------------------------------------------------------
(* ImGui_Renderer as a pass of the manager (checked under SpecGui). *)

\* The ImGui calls of the most recent handler.
GuiCalls(name) == {i \in 1..Len(rp.gui.calls) : rp.gui.calls[i].ev = name}

\* C32: driven by the Animate and Render calls the manager makes, the
\* ImGui_Renderer begins ImGui frames and renders them in strict alternation:
\* every ImGui::NewFrame finds no frame begun, every ImGui::Render finds the
\* frame that one NewFrame began, and m_beginFrameCalled says which is next.
NewFrameAndRenderAlternate ==
    /\ \A i \in GuiCalls("ImGui::NewFrame") : ~rp.gui.calls[i].within
    /\ \A i \in GuiCalls("ImGui::Render") : rp.gui.calls[i].within
    /\ rp.gui.m_beginFrameCalled = rp.gui.WithinFrame

\* In skip mode the second tick animates the ImGui_Renderer again, begins no
\* frame, and renders the frame the first tick began.
SecondAnimateBeginsNoFrame ==
    /\ dm.m_SkipRenderOnFirstFrame
    /\ op.name = "MessageLoopTick"
    /\ dm.m_FrameIndex = 2
    /\ \E i \in Idx(trace, "Animate") : trace[i].pass = GuiPass
    /\ GuiCalls("ImGui::NewFrame") = {}
    /\ GuiCalls("ImGui::Render") # {}

---------------------------------------------------------------------------
(* SwitchableCamera (checked under SpecCamera). *)

\* How many of the three Is...Active() are true.
ActiveKinds(c) ==
    Cardinality({k \in {"first", "third", "scene"} :
                    \/ k = "first" /\ IsFirstPersonActive(c)
                    \/ k = "third" /\ IsThirdPersonActive(c)
                    \/ k = "scene" /\ IsSceneCameraActive(c)})

\* The user camera that m_UseFirstPerson selects.
SelectedUserCamera(c) ==
    IF c.m_UseFirstPerson THEN "m_FirstPerson" ELSE "m_ThirdPerson"

\* C33: after any sequence of switches exactly one of IsFirstPersonActive,
\* IsThirdPersonActive and IsSceneCameraActive is true; each of the six input
\* methods returns true and forwards one call to the active user camera exactly
\* when a user camera is active, and returns false and forwards nothing when a
\* scene camera is active; SwitchToSceneCamera does not change which user camera
\* was selected.
ExactlyOneCameraActive ==
    /\ [](ActiveKinds(rp.camera) = 1)
    /\ [](op.name \in CameraInputs =>
            IF IsSceneCameraActive(rp.camera)
            THEN ~op.ret /\ trace = <<>>
            ELSE /\ op.ret
                 /\ Len(trace) = 1
                 /\ trace[1].ev = op.name
                 /\ trace[1].pass = SelectedUserCamera(rp.camera))
    /\ [][op'.name = "SwitchToSceneCamera"
            => /\ rp'.camera.m_UseFirstPerson = rp.camera.m_UseFirstPerson
               /\ rp'.camera.m_FirstPerson = rp.camera.m_FirstPerson
               /\ rp'.camera.m_ThirdPerson = rp.camera.m_ThirdPerson]_vars

\* With the first-person camera selected and a scene camera active, an input
\* event was refused and forwarded to nobody.
InputRefusedByFirstPersonBehindScene ==
    /\ op.name = "JoystickUpdate"
    /\ ~op.ret
    /\ trace = <<>>
    /\ rp.camera.m_SceneCamera = "S2"
    /\ rp.camera.m_UseFirstPerson
    /\ rp.camera.m_ThirdPerson = "S1"

---------------------------------------------------------------------------
(* Shutdown inside the message loop (checked under Spec). *)

\* C34: whenever DeviceManager::Render runs, the current backbuffer index is
\* smaller than the number of framebuffers in the framebuffer set, so the set is
\* not empty, for every interleaving of creation, resize, minimise, Shutdown and
\* ticks.
RenderIndexInsideFramebufferSet ==
    \A i \in Idx(trace, "DeviceManager::Render") :
        trace[i].n > 0 /\ trace[i].x < trace[i].n

\* The loop ticked after Shutdown, and DeviceManager::Render read index 0 of an
\* empty framebuffer set.
RenderedFromEmptyFramebufferSet ==
    /\ op.name = "MessageLoopTick"
    /\ ~dx.m_NvrhiDevice /\ ~dx.m_SwapChain
    /\ ~dm.m_InstanceCreated /\ dm.m_windowVisible
    /\ dm.m_SwapChainFramebuffers = <<>>
    /\ \E i \in Idx(trace, "DeviceManager::Render") : trace[i].x = 0 /\ trace[i].n = 0

\* The calls that go to the device or the swapchain.
DeviceCalls == {"BeginFrame", "Present", "runGarbageCollection", "waitForIdle"}

\* C35: after Shutdown has destroyed the device and the swapchain no operation
\* uses them until a new creation succeeds: the handler that follows Shutdown
\* makes no BeginFrame, Present, runGarbageCollection or waitForIdle call, and
\* the window is not left visible by Shutdown.
NoUseOfDestroyedDevice ==
    /\ [](op.name = "Shutdown" => ~dm.m_windowVisible)
    /\ [][op.name = "Shutdown" /\ ~dx.m_NvrhiDevice
            => \A k \in 1..Len(trace') : trace'[k].ev \notin DeviceCalls]_vars

\* Shutdown in the loop left the window visible, and the tick of the same
\* iteration collected garbage on the destroyed device.
GarbageCollectedOnDestroyedDevice ==
    /\ op.name = "MessageLoopTick"
    /\ ~dx.m_NvrhiDevice
    /\ dm.m_windowVisible
    /\ ~dm.m_InstanceCreated
    /\ Idx(trace, "runGarbageCollection") # {}

\* Shutdown in the loop, then destroyRequested: RunMessageLoop waited for a
\* destroyed device to be idle.
WaitedForDestroyedDevice ==
    /\ op.name = "DestroyRequested"
    /\ ~dx.m_NvrhiDevice
    /\ ~dm.m_InstanceCreated
    /\ Idx(trace, "waitForIdle") # {}

---------------------------------------------------------------------------
(* A tick that fails on Present (checked under SpecFrames). *)

\* What a tick does after its rendering block.
CompletionCalls == {"runGarbageCollection", "UpdateAverageFrameTime",
                    "StorePreviousFrameTimestamp", "IncrementFrameIndex"}

\* C36: a tick that fails because Present returned false leaves the frame
\* index, the previous-frame timestamp, the accumulated frame time and frame
\* count and the average frame time unchanged and runs no garbage collection,
\* while afterPresent has still been called, after the Present.
FailedTickCompletesNothing ==
    [][~halted' /\ (\E i \in Idx(trace', "Present") : trace'[i].z = 0)
         => /\ dm'.m_FrameIndex = dm.m_FrameIndex
            /\ dm'.m_FrameTimeSum = dm.m_FrameTimeSum
            /\ dm'.m_NumberOfAccumulatedFrames = dm.m_NumberOfAccumulatedFrames
            /\ dm'.m_AverageFrameTime = dm.m_AverageFrameTime
            /\ \A k \in 1..Len(trace') : trace'[k].ev \notin CompletionCalls
            /\ \A i \in Idx(trace', "Present") :
                  /\ i < Len(trace')
                  /\ trace'[i + 1].ev = "afterPresent"
            /\ ~op'.ret \/ op'.name = "WindowPosCallback"]_vars

\* After one completed tick a tick of the loop failed on Present: afterPresent
\* was called with the tick's index, and one frame stays accumulated.
FailedTickCalledAfterPresent ==
    /\ op.name = "MessageLoopTick"
    /\ ~halted
    /\ ~op.ret
    /\ PresentFailed
    /\ dm.m_FrameIndex = 1
    /\ dm.m_NumberOfAccumulatedFrames = 1
    /\ \E i \in Idx(trace, "afterPresent") : trace[i].x = 1

---------------------------------------------------------------------------
(* The focus flag and window-size events (checked under Spec). *)

\* C37: the in-focus flag changes only through WindowFocusCallback, whatever
\* window-resize or window-size events occur: once WindowFocusCallback(0) has
\* cleared it, it stays cleared until WindowFocusCallback(1), and while it is
\* cleared a tick in which no pass returns true from ShouldRenderUnfocused
\* performs no Animate, Render or Present.
FocusChangesOnlyByFocusCallback ==
    /\ [][dm'.m_windowIsInFocus # dm.m_windowIsInFocus
            => op'.name = "WindowFocusCallback"]_vars
    /\ [](/\ op.name = "MessageLoopTick"
          /\ ~dm.m_windowIsInFocus
          /\ \A i \in Idx(trace, "ShouldRenderUnfocused") : trace[i].z = 0
          => \A k \in 1..Len(trace) : trace[k].ev \notin {"Animate", "Render", "Present"})

\* Out of focus, a tick that no pass asks for animates, renders and presents
\* nothing.
UnfocusedTickStaysIdle ==
    [](/\ op.name = "MessageLoopTick"
       /\ ~dm.m_windowIsInFocus
       /\ \A i \in Idx(trace, "ShouldRenderUnfocused") : trace[i].z = 0
       => \A k \in 1..Len(trace) : trace[k].ev \notin {"Animate", "Render", "Present"})

\* A window-size event on a window out of focus leaves it out of focus.
SizeEventLeavesFocusLost ==
    [][~dm.m_windowIsInFocus /\ op'.name = "UpdateWindowSize"
         => ~dm'.m_windowIsInFocus]_vars

---------------------------------------------------------------------------
(* The render/present index in skip mode (checked under SpecFrames). *)

\* C38: the frame index passed to beforeRender, afterRender, beforePresent and
\* afterPresent never wraps below zero: whenever skip mode decrements the index
\* the frame index is at least 1, so the hooks get frame index - 1 >= 0 and
\* never the wrapped value, in every state reachable from frame index 0.
DecrementedIndexNeverWraps ==
    [][dm.m_SkipRenderOnFirstFrame
         /\ (\E k \in 1..Len(trace') : trace'[k].ev \in RenderHooks)
         => /\ dm.m_FrameIndex >= 1
            /\ \A k \in 1..Len(trace') :
                  trace'[k].ev \in RenderHooks
                    => /\ trace'[k].x = dm.m_FrameIndex - 1
                       /\ trace'[k].x # WrappedIndex]_vars

\* The first rendering tick of skip mode: it started at frame index 1 and gave
\* index 0 to the four hooks.
FirstRenderedIndexIsZero ==
    /\ dm.m_SkipRenderOnFirstFrame
    /\ op.name = "MessageLoopTick"
    /\ ~halted
    /\ dm.m_FrameIndex = 2
    /\ \A h \in RenderHooks : \E i \in Idx(trace, h) : trace[i].x = 0

---------------------------------------------------------------------------
(* The resize notices each pass gets (checked under Spec). *)

\* The resize notices that the last handler gave to pass p, in order.
NoticesTo(p) ==
    SelectSeq(trace, LAMBDA e : e.ev \in ResizeNotices /\ e.pass = p)

\* The notices alternate, the first is BackBufferResizing, and a handler that
\* ran to its end gave BackBufferResized last.
NoticesAlternate(f) ==
    /\ \A i \in 1..Len(f) :
          f[i].ev = IF i % 2 = 1 THEN "BackBufferResizing" ELSE "BackBufferResized"
    /\ ~halted => Len(f) % 2 = 0

\* C39: for every pass, over any sequence of AddRenderPassToFront/Back, resize
\* events and ticks, the BackBufferResizing and BackBufferResized notices
\* strictly alternate, starting with BackBufferResizing; AddRenderPassToFront or
\* AddRenderPassToBack of p gives p exactly one BackBufferResizing followed by
\* one BackBufferResized with the stored width, height and sample count, and
\* gives no other pass a notice; RemoveRenderPass gives none.
ResizeNoticesAlternatePerPass ==
    /\ \A p \in AllPasses : NoticesAlternate(NoticesTo(p))
    /\ op.name \in {"AddRenderPassToFront", "AddRenderPassToBack"}
         => /\ Len(NoticesTo(op.pass)) = 2
            /\ NoticesTo(op.pass)[2].x = dm.m_DeviceParams.backBufferWidth
            /\ NoticesTo(op.pass)[2].y = dm.m_DeviceParams.backBufferHeight
            /\ NoticesTo(op.pass)[2].z = dm.m_DeviceParams.swapChainSampleCount
            /\ \A p \in AllPasses \ {op.pass} : NoticesTo(p) = <<>>
    /\ op.name = "RemoveRenderPass"
         => \A p \in AllPasses : NoticesTo(p) = <<>>

\* With P1 registered on a created window of width 2, P2 was added to the front
\* and alone was told BackBufferResizing and then BackBufferResized(2, 1, 1).
AddedPassToldBothNotices ==
    /\ op.name = "AddRenderPassToFront"
    /\ op.pass = "P2"
    /\ dm.m_vRenderPasses = <<"P2", "P1">>
    /\ dx.m_SwapChain
    /\ dm.m_DeviceParams.backBufferWidth = 2
    /\ Len(NoticesTo("P2")) = 2
    /\ NoticesTo("P2")[2].x = 2
    /\ NoticesTo("P1") = <<>>

\* A tick whose BeginFrame resized told both registered passes both notices.
TickToldBothPassesBothNotices ==
    /\ op.name = "MessageLoopTick"
    /\ ~halted
    /\ Len(dm.m_vRenderPasses) = 2
    /\ \A p \in Range(dm.m_vRenderPasses) : Len(NoticesTo(p)) = 2

====
